---------------------------- MODULE Spec2Model ----------------------------
(***************************************************************************)
(* Model of the decision kernel of marvis-vault:                           *)
(*   - vault/engine/condition_evaluator.py  (normalizer, tokenizer,        *)
(*     expression evaluator)                                               *)
(*   - vault/engine/policy_engine.py        (evaluate)                     *)
(*   - vault/utils/security/runtime_bypass.py (BypassManager and the       *)
(*     bypass_validation guard)                                            *)
(*                                                                         *)
(* Python strings are sequences of one-character strings.  Python floats   *)
(* are integers scaled by Scale (two decimal digits).  A Python value is   *)
(* a record [t, v] whose tag t is "num", "str", "bool", "none" or "op".    *)
(***************************************************************************)
EXTENDS Integers, Sequences, FiniteSets, TLC

(***************************************************************************)
(* Characters and Python values                                            *)
(***************************************************************************)
Lower == {"a","b","c","d","e","f","g","h","i","j","k","l","m",
          "n","o","p","q","r","s","t","u","v","w","x","y","z"}
Upper == {"A","B","C","D","E","F","G","H","I","J","K","L","M",
          "N","O","P","Q","R","S","T","U","V","W","X","Y","Z"}
Digits == {"0","1","2","3","4","5","6","7","8","9"}

\* str.isalpha(), str.isdigit(), str.isspace() and the regex class \w
IsAlpha(c) == c \in Lower \cup Upper
IsDigit(c) == c \in Digits
IsSpace(c) == c \in {" ", "\t", "\n"}
IsWord(c) == IsAlpha(c) \/ IsDigit(c) \/ c = "_"

DigitVal(c) ==
  CASE c = "0" -> 0 [] c = "1" -> 1 [] c = "2" -> 2 [] c = "3" -> 3
    [] c = "4" -> 4 [] c = "5" -> 5 [] c = "6" -> 6 [] c = "7" -> 7
    [] c = "8" -> 8 [] c = "9" -> 9

\* str.strip()
RECURSIVE LStrip(_)
LStrip(s) == IF s # <<>> /\ IsSpace(Head(s)) THEN LStrip(Tail(s)) ELSE s
RECURSIVE RStrip(_)
RStrip(s) ==
  IF s # <<>> /\ IsSpace(s[Len(s)]) THEN RStrip(SubSeq(s, 1, Len(s) - 1)) ELSE s
Strip(s) == RStrip(LStrip(s))

\* a float x is the integer x * Scale
Scale == 100

Num(n) == [t |-> "num", v |-> n]
Str(s) == [t |-> "str", v |-> s]
Bool(b) == [t |-> "bool", v |-> b]
None == [t |-> "none", v |-> 0]
Op(o) == [t |-> "op", v |-> o]

\* isinstance(x, (int, float)): bool is a subclass of int
IsIntOrFloat(x) == x.t \in {"num", "bool"}

\* float(x) for an int, float or bool
ToFloat(x) == IF x.t = "bool" THEN (IF x.v THEN Scale ELSE 0) ELSE x.v

\* bool(x)
Truthy(x) ==
  CASE x.t = "num" -> x.v # 0
    [] x.t = "bool" -> x.v
    [] x.t = "str" -> x.v # <<>>
    [] x.t = "none" -> FALSE
    [] x.t = "op" -> TRUE

\* x == y
PyEq(x, y) ==
  IF IsIntOrFloat(x) /\ IsIntOrFloat(y) THEN ToFloat(x) = ToFloat(y)
  ELSE IF x.t = y.t THEN x.v = y.v
  ELSE FALSE

(***************************************************************************)
(* normalize_condition                                                     *)
(*                                                                         *)
(* The string is a sequence of items.  A saved string literal is one item  *)
(* that stands for its placeholder __STR_LIT_n__: the regular expressions  *)
(* see it as the word character "_" and never match inside it.             *)
(***************************************************************************)
Ch(c) == [c |-> c, isLit |-> FALSE, lit |-> <<>>]
Lit(s) == [c |-> "_", isLit |-> TRUE, lit |-> s]

\* position of the first q in s at or after i, 0 if there is none
RECURSIVE FindChar(_, _, _)
FindChar(s, q, i) ==
  IF i > Len(s) THEN 0
  ELSE IF s[i] = q THEN i
  ELSE FindChar(s, q, i + 1)

\* the item the substitution of the literals gives at position i, and the
\* position after it
SaveAt(s, i) ==
  IF s[i] \in {"'", "\""} /\ FindChar(s, s[i], i + 1) # 0
    THEN LET j == FindChar(s, s[i], i + 1)
         IN  [item |-> Lit(SubSeq(s, i, j)), next |-> j + 1]
  ELSE [item |-> Ch(s[i]), next |-> i + 1]

\* re.sub(r"'[^']*'|\"[^\"]*\"", save_literal, condition)
RECURSIVE SaveLiterals(_, _)
SaveLiterals(s, i) ==
  IF i > Len(s) THEN <<>>
  ELSE <<SaveAt(s, i).item>> \o SaveLiterals(s, SaveAt(s, i).next)

IsCh(s, i, c) == i >= 1 /\ i <= Len(s) /\ ~s[i].isLit /\ s[i].c = c
\* the character the lookarounds see at position i ("" outside the string)
Seen(s, i) == IF i >= 1 /\ i <= Len(s) THEN s[i].c ELSE ""

\* the five substitutions, in the order of the source
NormPasses == <<"eq3", "ne3", "or", "and", "not">>

PatMatch(p, s, i) ==
  CASE p = "eq3" -> /\ IsCh(s, i, "=") /\ IsCh(s, i + 1, "=") /\ IsCh(s, i + 2, "=")
                    /\ Seen(s, i - 1) # "!"
    [] p = "ne3" -> IsCh(s, i, "!") /\ IsCh(s, i + 1, "=") /\ IsCh(s, i + 2, "=")
    [] p = "or"  -> /\ IsCh(s, i, "|") /\ IsCh(s, i + 1, "|")
                    /\ Seen(s, i - 1) \notin {"=", "!", "<", ">"}
                    /\ Seen(s, i + 2) \notin {"=", "|"}
    [] p = "and" -> /\ IsCh(s, i, "&") /\ IsCh(s, i + 1, "&")
                    /\ Seen(s, i - 1) \notin {"=", "!", "<", ">"}
                    /\ Seen(s, i + 2) # "&"
    [] p = "not" -> /\ IsCh(s, i, "!")
                    /\ ~(Seen(s, i - 1) # "" /\ (IsWord(Seen(s, i - 1)) \/ Seen(s, i - 1) = "!"))
                    /\ ~(Seen(s, i + 1) # "" /\ (IsWord(Seen(s, i + 1)) \/ Seen(s, i + 1) = "="))

PatLen(p) == CASE p = "eq3" -> 3 [] p = "ne3" -> 3 [] p = "or" -> 2
               [] p = "and" -> 2 [] p = "not" -> 1

PatRepl(p) ==
  CASE p = "eq3" -> <<Ch("="), Ch("=")>>
    [] p = "ne3" -> <<Ch("!"), Ch("=")>>
    [] p = "or"  -> <<Ch(" "), Ch("o"), Ch("r"), Ch(" ")>>
    [] p = "and" -> <<Ch(" "), Ch("a"), Ch("n"), Ch("d"), Ch(" ")>>
    [] p = "not" -> <<Ch("n"), Ch("o"), Ch("t"), Ch(" ")>>

\* re.sub(pattern, replacement, s): leftmost non-overlapping matches
RECURSIVE SubPass(_, _, _)
SubPass(p, s, i) ==
  IF i > Len(s) THEN <<>>
  ELSE IF PatMatch(p, s, i) THEN PatRepl(p) \o SubPass(p, s, i + PatLen(p))
  ELSE <<s[i]>> \o SubPass(p, s, i + 1)

RECURSIVE ApplyPasses(_, _)
ApplyPasses(s, k) ==
  IF k > Len(NormPasses) THEN s
  ELSE ApplyPasses(SubPass(NormPasses[k], s, 1), k + 1)

\* condition.replace(key, value) for every saved literal
RECURSIVE RestoreLiterals(_, _)
RestoreLiterals(s, i) ==
  IF i > Len(s) THEN <<>>
  ELSE (IF s[i].isLit THEN s[i].lit ELSE <<s[i].c>>) \o RestoreLiterals(s, i + 1)

normalize_condition(condition) ==
  IF condition = <<>> THEN condition
  ELSE RestoreLiterals(ApplyPasses(SaveLiterals(condition, 1), 1), 1)

(***************************************************************************)
(* _tokenize                                                               *)
(***************************************************************************)
MAX_TOKENS == 100

Token(type, value) == [type |-> type, value |-> value]

\* results of the functions that can raise
Tokens(ts) == [ok |-> TRUE, tokens |-> ts, msg |-> <<>>]
TokErr(m) == [ok |-> FALSE, tokens |-> <<>>, msg |-> m]

CharAt(s, i) == IF i >= 1 /\ i <= Len(s) THEN s[i] ELSE ""

\* first position at or after i whose character does not satisfy the class
RECURSIVE SkipWord(_, _)
SkipWord(s, i) == IF i <= Len(s) /\ IsWord(s[i]) THEN SkipWord(s, i + 1) ELSE i
RECURSIVE SkipDigits(_, _)
SkipDigits(s, i) == IF i <= Len(s) /\ IsDigit(s[i]) THEN SkipDigits(s, i + 1) ELSE i

\* value of the decimal digits s[i..j-1]
RECURSIVE DigitsVal(_, _, _)
DigitsVal(s, i, j) ==
  IF j <= i THEN 0 ELSE DigitsVal(s, i, j - 1) * 10 + DigitVal(s[j - 1])

\* re.match(r'-?\d+(\.\d+)?', condition[i:]): end of the match (exclusive),
\* 0 when there is no match
NumberEnd(s, i) ==
  LET d == IF CharAt(s, i) = "-" THEN i + 1 ELSE i
  IN  IF ~IsDigit(CharAt(s, d)) THEN 0
      ELSE LET e == SkipDigits(s, d)
           IN  IF CharAt(s, e) = "." /\ IsDigit(CharAt(s, e + 1))
               THEN SkipDigits(s, e + 1) ELSE e

\* float(match.group()), to two decimal digits
NumberVal(s, i) ==
  LET neg == CharAt(s, i) = "-"
      d == IF neg THEN i + 1 ELSE i
      e == SkipDigits(s, d)
      hasFrac == CharAt(s, e) = "." /\ IsDigit(CharAt(s, e + 1))
      frac == IF ~hasFrac THEN 0
              ELSE DigitVal(s[e + 1]) * 10
                   + (IF IsDigit(CharAt(s, e + 2)) THEN DigitVal(s[e + 2]) ELSE 0)
      mag == DigitsVal(s, d, e) * Scale + frac
  IN  IF neg THEN 0 - mag ELSE mag

\* the state of the loop after an iteration
Stepped(i, tokens) == [ok |-> TRUE, i |-> i, tokens |-> tokens, msg |-> <<>>]

\* one iteration of the while loop, lines 98-175
TokenStep(s, i, tokens) ==
  IF Len(tokens) >= MAX_TOKENS
    THEN TokErr(<<"Condition exceeds maximum token limit of ", MAX_TOKENS>>)
  ELSE
  LET char == s[i]
      next == CharAt(s, i + 1)
      two == <<char, next>>
  IN
  IF IsSpace(char) THEN Stepped(i + 1, tokens)
  ELSE IF char \in {"&", "|", "=", "!", ">", "<"} THEN
    IF i + 1 <= Len(s) /\ char \in {">", "<"} /\ next \in {">", "<"}
      THEN TokErr(<<"Invalid operator sequence '", char, next, "' at position ", i - 1>>)
    ELSE IF two = <<"&", "&">>
      THEN Stepped(i + 2, Append(tokens, Token("OPERATOR", Op("AND"))))
    ELSE IF two = <<"|", "|">>
      THEN Stepped(i + 2, Append(tokens, Token("OPERATOR", Op("OR"))))
    ELSE IF two = <<"=", "=">>
      THEN Stepped(i + 2, Append(tokens, Token("OPERATOR", Op("EQUALS"))))
    ELSE IF two = <<"!", "=">>
      THEN Stepped(i + 2, Append(tokens, Token("OPERATOR", Op("NOT_EQUALS"))))
    ELSE IF char = ">"
      THEN Stepped(i + 1, Append(tokens, Token("OPERATOR", Op("GREATER_THAN"))))
    ELSE IF char = "<"
      THEN Stepped(i + 1, Append(tokens, Token("OPERATOR", Op("LESS_THAN"))))
    ELSE TokErr(<<"Invalid operator at position ", i - 1>>)
  ELSE IF char \in {"(", ")"}
    THEN Stepped(i + 1, Append(tokens, Token("PAREN", Str(<<char>>))))
  ELSE IF IsAlpha(char)
    THEN LET e == SkipWord(s, i)
         IN  Stepped(e, Append(tokens, Token("VALUE", Str(SubSeq(s, i, e - 1)))))
  ELSE IF IsDigit(char) \/ char = "-"
    THEN LET e == NumberEnd(s, i)
         IN  IF e = 0 THEN TokErr(<<"Invalid number at position ", i - 1>>)
             ELSE Stepped(e, Append(tokens, Token("VALUE", Num(NumberVal(s, i)))))
  ELSE IF char \in {"'", "\""}
    THEN LET j == FindChar(s, char, i + 1)
         IN  IF j = 0 THEN TokErr(<<"Unclosed string at position ", i - 1>>)
             ELSE Stepped(j + 1,
                          Append(tokens, Token("LITERAL", Str(SubSeq(s, i + 1, j - 1)))))
  ELSE TokErr(<<"Unexpected character at position ", i - 1>>)

\* the while loop, lines 97-177
RECURSIVE Tokenize(_, _, _)
Tokenize(s, i, tokens) ==
  IF i > Len(s) THEN Tokens(tokens)
  ELSE LET step == TokenStep(s, i, tokens)
       IN  IF ~step.ok THEN step ELSE Tokenize(s, step.i, step.tokens)

_tokenize(condition) == Tokenize(condition, 1, <<>>)

(***************************************************************************)
(* _validate_numeric, _find_matching_paren, _evaluate_expression           *)
(***************************************************************************)
MAX_RECURSION_DEPTH == 20

S_trustScore == <<"t","r","u","s","t","S","c","o","r","e">>

\* what a call gives back: the returned tuple, or the exception raised
Return(tuple) == [st |-> "ok", ret |-> tuple, exc |-> "", msg |-> <<>>]
Raise(exc, msg) == [st |-> "raise", ret |-> <<>>, exc |-> exc, msg |-> msg]

_validate_numeric(value, field_name) ==
  IF value.t = "none"
    THEN Raise("ConditionValidationError", <<"Field '", field_name, "' cannot be null">>)
  ELSE IF ~IsIntOrFloat(value)
    THEN Raise("ConditionValidationError",
               <<"Field '", field_name, "' must be numeric, got ", value.t>>)
  ELSE IF /\ field_name.t = "str" /\ field_name.v = S_trustScore
          /\ ~(0 <= ToFloat(value) /\ ToFloat(value) <= 100 * Scale)
    THEN Raise("ConditionValidationError",
               <<"Field '", field_name, "' must be between 0 and 100 inclusive">>)
  ELSE Return(<<Num(ToFloat(value))>>)

IsParen(tok, c) == tok.type = "PAREN" /\ tok.value.v = <<c>>

\* index of the parenthesis that closes the one at start, 0 for
\* ValueError("Unmatched parenthesis")
RECURSIVE FindParen(_, _, _)
FindParen(tokens, i, count) ==
  IF i > Len(tokens) THEN 0
  ELSE IF IsParen(tokens[i], "(") THEN FindParen(tokens, i + 1, count + 1)
  ELSE IF IsParen(tokens[i], ")")
    THEN (IF count = 1 THEN i ELSE FindParen(tokens, i + 1, count - 1))
  ELSE FindParen(tokens, i + 1, count)

_find_matching_paren(tokens, start) == FindParen(tokens, start + 1, 1)

IsAndOr(tok) == tok.type = "OPERATOR" /\ tok.value.v \in {"AND", "OR"}

\* first index at or after i of a token that is AND or OR, 0 if there is none
RECURSIVE FirstAndOr(_, _)
FirstAndOr(tokens, i) ==
  IF i > Len(tokens) THEN 0
  ELSE IF IsAndOr(tokens[i]) THEN i
  ELSE FirstAndOr(tokens, i + 1)

\* list(visited_fields): some enumeration of the set
RECURSIVE SetToList(_)
SetToList(S) ==
  IF S = {} THEN <<>>
  ELSE LET x == CHOOSE y \in S : TRUE IN <<x>> \o SetToList(S \ {x})

\* CircularReferenceError(field, chain): the message joins chain + [field]
CircularReferenceError(field, chain) ==
  Raise("CircularReferenceError",
        <<"Circular reference detected: ", chain \o <<field>>>>)

IsName(tok) == tok.type = "VALUE" /\ tok.value.t = "str"

\* The comparison branch (three tokens, an operator in the middle).  It gives
\* back done = TRUE with the outcome, or done = FALSE when no comparison
\* operator applied and control falls through to the AND/OR scan, with the
\* visited set as the branch left it.
Comparison(tokens, context, visited) ==
  LET lt == tokens[1]
      rt == tokens[3]
      op == tokens[2].value.v
      lname == lt.value.v
      rname == rt.value.v
      visitedL == IF IsName(lt) THEN visited \cup {lname} ELSE visited
      left == IF IsName(lt) THEN context[lname] ELSE lt.value
      rightInCtx == IsName(rt) /\ rname \in DOMAIN context
      visitedR == IF rightInCtx THEN visitedL \cup {rname} ELSE visitedL
      right == IF rightInCtx THEN context[rname] ELSE rt.value
      nl == _validate_numeric(left, lt.value)
      nr == _validate_numeric(right, rt.value)
  IN
  IF IsName(lt) /\ lname \in visited
    THEN [done |-> TRUE, visited |-> visited,
          out |-> CircularReferenceError(lname, SetToList(visited))]
  ELSE IF IsName(lt) /\ lname \notin DOMAIN context
    THEN [done |-> TRUE, visited |-> visited,
          out |-> Raise("ValueError", <<"Context key '", lname, "' not found">>)]
  ELSE IF IsName(rt) /\ rname \in visitedL
    THEN [done |-> TRUE, visited |-> visitedL,
          out |-> CircularReferenceError(rname, SetToList(visitedL))]
  ELSE IF op \in {"GREATER_THAN", "LESS_THAN"} THEN
    IF nl.st = "raise"
      THEN [done |-> TRUE, visited |-> visitedR,
            out |-> Raise("ValueError", <<"Invalid comparison: ", nl.msg>>)]
    ELSE IF nr.st = "raise"
      THEN [done |-> TRUE, visited |-> visitedR,
            out |-> Raise("ValueError", <<"Invalid comparison: ", nr.msg>>)]
    ELSE LET l == nl.ret[1]
             r == nr.ret[1]
             result == IF op = "GREATER_THAN" THEN l.v > r.v ELSE l.v < r.v
             sym == IF op = "GREATER_THAN" THEN " > " ELSE " < "
         IN  [done |-> TRUE, visited |-> visitedR,
              out |-> Return(<<result, <<l, sym, r, " is ", result>>>>)]
  ELSE IF op = "EQUALS"
    THEN [done |-> TRUE, visited |-> visitedR,
          out |-> Return(<<PyEq(left, right),
                           <<left, " == ", right, " is ", PyEq(left, right)>>>>)]
  ELSE IF op = "NOT_EQUALS"
    THEN [done |-> TRUE, visited |-> visitedR,
          out |-> Return(<<~PyEq(left, right),
                           <<left, " != ", right, " is ", ~PyEq(left, right)>>>>)]
  ELSE [done |-> FALSE, visited |-> visitedR, out |-> Raise("", <<>>)]

\* what a call of _evaluate_expression does before it calls itself: it ends
\* (kind "out"), or it goes on with the tokens inside the parentheses
\* (kind "paren"), or with the two sides of the AND or OR at index i
Ended(out) == [kind |-> "out", out |-> out, tokens |-> <<>>, visited |-> {}, i |-> 0]
Nested(kind, tokens, visited, i) ==
  [kind |-> kind, out |-> Raise("", <<>>), tokens |-> tokens, visited |-> visited, i |-> i]

\* the depth check left out
NeverTooDeep(depth) == FALSE

\* _evaluate_expression, line 218
TooDeep(depth) == depth > MAX_RECURSION_DEPTH

\* _evaluate_expression, lines 216-295 and 310
Expression(tokens, context, visited_fields, depth) ==
  LET end == _find_matching_paren(tokens, 1)
      openParen == IsParen(tokens[1], "(")
      cmp == IF Len(tokens) = 3 /\ tokens[2].type = "OPERATOR"
             THEN Comparison(tokens, context, visited_fields)
             ELSE [done |-> FALSE, visited |-> visited_fields, out |-> Raise("", <<>>)]
      i == FirstAndOr(tokens, 1)
      value == tokens[1].value
  IN
  IF TooDeep(depth)
    THEN Ended(Raise("ValueError",
                     <<"Maximum recursion depth of ", MAX_RECURSION_DEPTH, " exceeded">>))
  ELSE IF tokens = <<>> THEN Ended(Return(<<TRUE, <<"Empty condition">>>>))
  ELSE IF openParen /\ end = 0 THEN Ended(Raise("ValueError", <<"Unmatched parenthesis">>))
  ELSE IF openParen /\ end = Len(tokens)
    THEN Nested("paren", SubSeq(tokens, 2, end - 1), visited_fields, 0)
  ELSE IF Len(tokens) = 1 THEN
    IF tokens[1].type \notin {"VALUE", "LITERAL"}
      THEN Ended(Raise("ValueError", <<"Invalid expression">>))
    ELSE IF IsName(tokens[1]) THEN
      IF value.v \in visited_fields
        THEN Ended(CircularReferenceError(value.v, SetToList(visited_fields)))
      ELSE IF value.v \in DOMAIN context
        THEN Ended(Return(<<Truthy(context[value.v]),
                            <<"Context value '", value.v, "' is ", Truthy(context[value.v])>>>>))
      ELSE Ended(Raise("ValueError", <<"Context key '", value.v, "' not found">>))
    ELSE Ended(Return(<<Truthy(value), <<"Value ", value, " is ", Truthy(value)>>>>))
  ELSE IF cmp.done THEN Ended(cmp.out)
  ELSE IF i = 0 THEN Ended(Raise("ValueError", <<"Invalid expression structure">>))
  ELSE Nested("andor", tokens, cmp.visited, i)

\* _evaluate_expression, lines 303-308: the result from those of the sides
Combined(operator, l, r) ==
  IF operator = "AND"
    THEN Return(<<l.ret[1] /\ r.ret[1],
                  <<"(", l.ret[2], ") AND (", r.ret[2], ") is ", l.ret[1] /\ r.ret[1]>>>>)
  ELSE Return(<<l.ret[1] \/ r.ret[1],
                <<"(", l.ret[2], ") OR (", r.ret[2], ") is ", l.ret[1] \/ r.ret[1]>>>>)

RECURSIVE _evaluate_expression(_, _, _, _)
_evaluate_expression(tokens, context, visited_fields, depth) ==
  LET e == Expression(tokens, context, visited_fields, depth)
      l == _evaluate_expression(SubSeq(tokens, 1, e.i - 1), context, e.visited, depth + 1)
      r == _evaluate_expression(SubSeq(tokens, e.i + 1, Len(tokens)), context,
                                e.visited, depth + 1)
  IN
  IF e.kind = "out" THEN e.out
  ELSE IF e.kind = "paren"
    THEN _evaluate_expression(e.tokens, context, e.visited, depth + 1)
  ELSE IF l.st = "raise" THEN l
  ELSE IF r.st = "raise" THEN r
  ELSE Combined(tokens[e.i].value.v, l, r)

(***************************************************************************)
(* evaluate_condition                                                      *)
(***************************************************************************)
AllSpace(s) == \A k \in 1..Len(s) : IsSpace(s[k])

\* except Exception as e: raise ValueError(f"Failed to evaluate condition ...")
Wrapped(original_condition, msg) ==
  Raise("ValueError",
        <<"Failed to evaluate condition '", original_condition, "': ", msg>>)

evaluate_condition(condition, context, visited_fields) ==
  LET tk == _tokenize(normalize_condition(condition))
      out == _evaluate_expression(tk.tokens, context, visited_fields, 0)
  IN
  IF condition = <<>>
    THEN Raise("InvalidConditionError", <<"Condition cannot be empty or None">>)
  ELSE IF AllSpace(condition)
    THEN Raise("InvalidConditionError", <<"Condition cannot be whitespace only">>)
  ELSE IF ~tk.ok THEN Wrapped(condition, tk.msg)
  ELSE IF tk.tokens = <<>>
    THEN Raise("InvalidConditionError", <<"Condition produced no valid tokens">>)
  ELSE IF out.st = "raise" /\ out.exc \notin {"CircularReferenceError", "InvalidConditionError"}
    THEN Wrapped(condition, out.msg)
  ELSE out

(***************************************************************************)
(* Inputs of evaluate                                                      *)
(***************************************************************************)
MaxConds == 3       \* conditions in a policy

S_role == <<"r","o","l","e">>
S_admin == <<"a","d","m","i","n">>
S_ssn == <<"s","s","n">>
S_email == <<"e","m","a","i","l">>
S_y == <<"y">>
S_x == <<"x">>

\* "trustScore > 80"
C_trust == S_trustScore \o <<" ",">"," ","8","0">>
\* "role == 'x'"
C_roleX == S_role \o <<" ","=","="," ","'","x","'">>
\* "trustScore >": a dangling operator
C_dangling == S_trustScore \o <<" ",">">>
\* "role >> 1": an invalid operator run
C_opRun == S_role \o <<" ",">",">"," ","1">>
\* "  ": whitespace only
C_blank == <<" "," ">>
\* "dept == 'x'": dept is in no context
C_missing == <<"d","e","p","t"," ","=","="," ","'","x","'">>
\* "role == role": the second lookup finds role already visited
C_cycle == S_role \o <<" ","=","="," ">> \o S_role

Conditions == {C_trust, C_roleX, C_dangling, C_opRun, C_blank, <<>>, C_missing, C_cycle}

RECURSIVE SeqsUpTo(_, _)
SeqsUpTo(S, n) ==
  IF n = 0 THEN {<<>>}
  ELSE LET shorter == SeqsUpTo(S, n - 1)
       IN  shorter \cup {Append(q, e) : q \in {r \in shorter : Len(r) = n - 1}, e \in S}

Policies ==
  [mask : {<<>>, <<S_ssn, S_email>>},
   unmask_roles : {<<>>, <<S_admin, S_x>>},
   conditions : SeqsUpTo(Conditions, MaxConds)]

Contexts ==
  {(S_role :> Str(r)) @@ (S_trustScore :> Num(n * Scale)) : r \in {S_admin, S_y, S_x}, n \in {85, 10}}
  \cup {(S_role :> Str(S_y)), (S_trustScore :> Num(85 * Scale))}

\* evaluate_condition(condition, context) for the conditions and contexts
\* above, as a table
Evaluated ==
  [condition \in Conditions, ctx \in Contexts |-> evaluate_condition(condition, ctx, {})]

(***************************************************************************)
(* State                                                                   *)
(***************************************************************************)
VARIABLES
  \* policy_engine.evaluate: one call, step by step
  policy,              \* the parsed Policy: mask, unmask_roles, conditions
  context,             \* the context mapping, field name -> value
  pc,                  \* position of the call: "start", "loop", "done"
  idx,                 \* index of the condition the for loop is at
  skipped_conditions,
  condition_results,
  passed_conditions,
  failed_conditions,
  result,              \* the EvaluationResult returned, NoResult before
  calls,               \* conditions handed to evaluate_condition, in order
  \* runtime_bypass: the module-level manager, the clock and the threads
  now,                 \* time.time(), in ticks of 1/TicksPerSecond seconds
  bypasses,            \* _bypass_manager._bypasses: thread id -> BypassContext
  global_bypass,       \* _bypass_manager._global_bypass
  guards,              \* per thread, the open bypass_validation blocks, outermost first
  bypass_uses,         \* _metrics.bypass_uses
  last,                \* the outcome of the latest call: thread, function, value
  \* monitoring: the module-level ValidationMetrics
  validation_times,    \* _metrics.validation_times: type and success of each call
  validation_counts,   \* _metrics.validation_counts: validation type -> calls
  rejection_counts,    \* _metrics.rejection_counts: validation type -> rejections
  error_types,         \* _metrics.error_types: exception name -> count
  \* the calls taken one statement at a time
  frame,               \* evaluate_condition: the locals of the call
  tpc,                 \* per thread, the statement the thread is at
  local,               \* per thread, the locals of its call
  manager_lock,        \* _bypass_manager._lock: the thread holding it, 0 if free
  metrics_lock,        \* _metrics._lock: the thread holding it, 0 if free
  completed            \* validation type -> calls of record_validation that ended

evalVars == <<policy, context, pc, idx, skipped_conditions, condition_results,
              passed_conditions, failed_conditions, result, calls>>

(***************************************************************************)
(* policy_engine.evaluate                                                  *)
(***************************************************************************)
NoResult == [success |-> FALSE, reason |-> <<>>, fields |-> <<>>,
             skipped_conditions |-> <<>>, condition_results |-> <<>>,
             passed_conditions |-> <<>>, failed_conditions |-> <<>>,
             unmask_role_override |-> FALSE, returned |-> FALSE]

EvaluationResult(success, reason, fields, skipped, results, passed, failed, override) ==
  [success |-> success, reason |-> reason, fields |-> fields,
   skipped_conditions |-> skipped, condition_results |-> results,
   passed_conditions |-> passed, failed_conditions |-> failed,
   unmask_role_override |-> override, returned |-> TRUE]

\* context.get("role")
ContextRole == IF S_role \in DOMAIN context THEN context[S_role] ELSE None

\* the membership test made against policy.mask instead of policy.unmask_roles
RoleInMask ==
  \E k \in 1..Len(policy.mask) : PyEq(ContextRole, Str(policy.mask[k]))

\* context.get("role") in policy.unmask_roles
RoleInUnmaskRoles ==
  \E k \in 1..Len(policy.unmask_roles) : PyEq(ContextRole, Str(policy.unmask_roles[k]))

\* success, explanation, fields_affected = <returned tuple>
Unpack3(out) ==
  IF out.st = "raise" THEN out
  ELSE IF Len(out.ret) < 3
    THEN Raise("ValueError",
               <<"not enough values to unpack (expected 3, got ", Len(out.ret), ")">>)
  ELSE IF Len(out.ret) > 3
    THEN Raise("ValueError", <<"too many values to unpack (expected 3)">>)
  ELSE out

\* the error result with nothing masked
ErrorResultUnmasked(condition, msg) ==
  EvaluationResult(FALSE, <<"Error evaluating condition '", condition, "': ", msg>>,
                   <<>>, skipped_conditions, condition_results,
                   passed_conditions, failed_conditions, FALSE)

\* the error result without the diagnostics gathered so far
ErrorResultFresh(condition, msg) ==
  EvaluationResult(FALSE, <<"Error evaluating condition '", condition, "': ", msg>>,
                   policy.mask, <<>>, <<>>, <<>>, <<>>, FALSE)

\* lines 79-88: the result returned when a condition raised an exception
\* other than InvalidConditionError
ErrorResult(condition, msg) ==
  EvaluationResult(FALSE, <<"Error evaluating condition '", condition, "': ", msg>>,
                   policy.mask, skipped_conditions, condition_results,
                   passed_conditions, failed_conditions, FALSE)

\* lines 44-54: the role override returns before any condition is looked at
RoleOverride ==
  /\ pc = "start"
  /\ RoleInUnmaskRoles
  /\ result' = EvaluationResult(TRUE, <<"Unmasked for role '", ContextRole, "'">>,
                                <<>>, <<>>, <<>>, <<>>, <<>>, TRUE)
  /\ pc' = "done"
  /\ UNCHANGED <<policy, context, idx, skipped_conditions, condition_results,
                 passed_conditions, failed_conditions, calls>>

\* lines 56-60: the tracking lists are created and the loop is entered
EnterLoop ==
  /\ pc = "start"
  /\ ~RoleInUnmaskRoles
  /\ skipped_conditions' = <<>>
  /\ condition_results' = <<>>
  /\ passed_conditions' = <<>>
  /\ failed_conditions' = <<>>
  /\ idx' = 1
  /\ pc' = "loop"
  /\ UNCHANGED <<policy, context, result, calls>>

\* lines 63-88: one iteration of the for loop
EvalCondition ==
  /\ pc = "loop"
  /\ idx <= Len(policy.conditions)
  /\ \E condition \in {policy.conditions[idx]} :
     \E out \in {Unpack3(Evaluated[condition, context])} :
     /\ calls' = Append(calls, condition)
     /\ IF out.st = "ok" THEN
          /\ condition_results' =
               Append(condition_results,
                      [condition |-> condition, success |-> out.ret[1],
                       explanation |-> out.ret[2], fields |-> out.ret[3]])
          /\ passed_conditions' =
               IF out.ret[1] THEN Append(passed_conditions, condition)
               ELSE passed_conditions
          /\ failed_conditions' =
               IF out.ret[1] THEN failed_conditions
               ELSE Append(failed_conditions, condition)
          /\ idx' = idx + 1
          /\ UNCHANGED <<skipped_conditions, result, pc>>
        ELSE IF out.exc = "InvalidConditionError" THEN
          /\ skipped_conditions' =
               Append(skipped_conditions,
                      <<"Skipped invalid condition '", condition, "': ", out.msg>>)
          /\ idx' = idx + 1
          /\ UNCHANGED <<condition_results, passed_conditions, failed_conditions,
                         result, pc>>
        ELSE
          /\ result' = ErrorResult(condition, out.msg)
          /\ pc' = "done"
          /\ UNCHANGED <<idx, skipped_conditions, condition_results,
                         passed_conditions, failed_conditions>>
  /\ UNCHANGED <<policy, context>>

\* lines 90-110: the decision after the loop
Decide ==
  /\ pc = "loop"
  /\ idx > Len(policy.conditions)
  /\ LET should_mask == Len(passed_conditions) = 0 /\ Len(policy.conditions) > 0
         reason == IF Len(passed_conditions) > 0
                     THEN <<Len(passed_conditions), " of ", Len(policy.conditions),
                            " conditions passed">>
                   ELSE IF Len(policy.conditions) = 0
                     THEN <<"No conditions to evaluate">>
                   ELSE <<"All conditions failed">>
     IN  result' = EvaluationResult(~should_mask, reason,
                                    IF should_mask THEN policy.mask ELSE <<>>,
                                    skipped_conditions, condition_results,
                                    passed_conditions, failed_conditions, FALSE)
  /\ pc' = "done"
  /\ UNCHANGED <<policy, context, idx, skipped_conditions, condition_results,
                 passed_conditions, failed_conditions, calls>>

bypassVars == <<now, bypasses, global_bypass, guards, bypass_uses, last>>

metricVars == <<validation_times, validation_counts, rejection_counts, error_types>>

vars == <<policy, context, pc, idx, skipped_conditions, condition_results,
          passed_conditions, failed_conditions, result, calls,
          now, bypasses, global_bypass, guards, bypass_uses, last,
          validation_times, validation_counts, rejection_counts, error_types,
          frame, tpc, local, manager_lock, metrics_lock, completed>>

stepVars == <<frame, tpc, local, manager_lock, metrics_lock, completed>>

(***************************************************************************)
(* runtime_bypass.BypassContext                                            *)
(***************************************************************************)
\* threading.get_ident() of the threads of the model
Threads == {1, 2}

\* the clock advances in ticks; int(time.time()) truncates to whole seconds
TicksPerSecond == 2
MaxTime == 2

S_unknown == <<"u","n","k","n","o","w","n">>

\* None in a slot that holds a BypassContext
NoBypass == [reason |-> <<>>, duration_seconds |-> 0, user |-> <<>>,
             start_time |-> 0, end_time |-> 0, bypass_id |-> <<>>]

\* BypassContext.__init__, run by thread at clock time
BypassContext(reason, duration_seconds, user, time, thread) ==
  [reason |-> reason,
   duration_seconds |-> duration_seconds,
   user |-> IF user = <<>> THEN S_unknown ELSE user,
   start_time |-> time,
   end_time |-> time + duration_seconds * TicksPerSecond,
   bypass_id |-> <<"bypass_", time \div TicksPerSecond, thread>>]

\* is_active that counts the expiry time itself as active
is_active_inclusive(bypass, time) == time <= bypass.end_time

\* BypassContext.is_active
is_active(bypass, time) == time < bypass.end_time

\* BypassContext.remaining_seconds (in ticks)
remaining_seconds(bypass, time) ==
  IF bypass.end_time - time > 0 THEN bypass.end_time - time ELSE 0

\* BypassContext.to_dict
to_dict(bypass, time) ==
  [bypass_id |-> bypass.bypass_id, reason |-> bypass.reason, user |-> bypass.user,
   start_time |-> bypass.start_time, end_time |-> bypass.end_time,
   duration_seconds |-> bypass.duration_seconds,
   remaining_seconds |-> remaining_seconds(bypass, time),
   is_active |-> is_active(bypass, time)]

(***************************************************************************)
(* runtime_bypass.BypassManager: each method is given the table, the       *)
(* global slot and the clock, and the calling thread                       *)
(***************************************************************************)
\* create_bypass, lines 86-93: the table after the store
create_bypass_table(table, bypass, thread, is_global) ==
  IF is_global THEN table ELSE [table EXCEPT ![thread] = bypass]

\* create_bypass, lines 86-93: the global slot after the store
create_bypass_global(slot, bypass, is_global) ==
  IF is_global THEN bypass ELSE slot

\* is_bypass_active looking at the entries of all threads
is_bypass_active_any(table, slot, time, thread) ==
  IF slot # NoBypass /\ is_active(slot, time) THEN TRUE
  ELSE \E u \in Threads : table[u] # NoBypass /\ is_active(table[u], time)

\* is_bypass_active: the value returned
is_bypass_active(table, slot, time, thread) ==
  IF slot # NoBypass /\ is_active(slot, time) THEN TRUE
  ELSE IF table[thread] # NoBypass THEN is_active(table[thread], time)
  ELSE FALSE

\* is_bypass_active: the table it leaves (an expired entry of the caller is
\* deleted unless the global bypass answered first)
is_bypass_active_table(table, slot, time, thread) ==
  IF slot # NoBypass /\ is_active(slot, time) THEN table
  ELSE IF table[thread] # NoBypass /\ ~is_active(table[thread], time)
    THEN [table EXCEPT ![thread] = NoBypass]
  ELSE table

\* get_active_bypass: the BypassContext returned, NoBypass for None
get_active_bypass(table, slot, time, thread) ==
  IF slot # NoBypass /\ is_active(slot, time) THEN slot
  ELSE IF table[thread] # NoBypass /\ is_active(table[thread], time) THEN table[thread]
  ELSE NoBypass

\* clear_bypass that deletes an entry only when a thread id is passed
clear_bypass_table_explicit(table, thread, thread_id, clear_global) ==
  IF clear_global THEN table
  ELSE IF thread_id # 0 THEN [table EXCEPT ![thread_id] = NoBypass]
  ELSE table

\* clear_bypass(thread_id, clear_global) called by thread: the table it
\* leaves; thread_id = 0 stands for None
clear_bypass_table(table, thread, thread_id, clear_global) ==
  IF clear_global THEN table
  ELSE IF thread_id # 0 THEN [table EXCEPT ![thread_id] = NoBypass]
  ELSE [table EXCEPT ![thread] = NoBypass]

\* clear_bypass: the global slot it leaves
clear_bypass_global(slot, clear_global) ==
  IF clear_global THEN NoBypass ELSE slot

\* get_all_bypasses: the dictionary returned
get_all_bypasses(table, slot, time) ==
  [global |-> IF slot # NoBypass /\ is_active(slot, time)
                THEN to_dict(slot, time) ELSE to_dict(NoBypass, 0),
   threads |-> {<<t, to_dict(table[t], time)>> :
                  t \in {u \in Threads : table[u] # NoBypass /\ is_active(table[u], time)}}]

\* get_all_bypasses: the table it leaves, expired entries deleted
get_all_bypasses_table(table, time) ==
  [t \in Threads |->
     IF table[t] # NoBypass /\ ~is_active(table[t], time) THEN NoBypass ELSE table[t]]

(***************************************************************************)
(* validators: values of a context                                         *)
(*                                                                         *)
(* An int is tagged "int" and a float "num".  A character outside ASCII is *)
(* named by its code point.  A dict is the sequence of its <<key, value>>  *)
(* pairs in insertion order, a list the sequence of its items.             *)
(***************************************************************************)
PyInt(n) == [t |-> "int", v |-> n]
Dict(pairs) == [t |-> "dict", v |-> pairs]
List(items) == [t |-> "list", v |-> items]

\* the str c * n, for one character c
Rep(c, n) == [t |-> "rep", v |-> <<c, n>>]

\* the value leaf inside n >= 1 nested containers, each a list of one item
\* or a dict of the one key "k"
S_k == <<"k">>
Tower(is_list, n, leaf) == [t |-> "tower", v |-> <<is_list, n, leaf>>]

\* isinstance(x, str) and len(x) of a str
IsStr(x) == x.t \in {"str", "rep"}
StrLen(x) == IF x.t = "rep" THEN x.v[2] ELSE Len(x.v)

\* key in d, d[key] and the keys of a dict
HasKey(d, key) == \E i \in 1..Len(d.v) : d.v[i][1] = key
Get(d, key) == d.v[CHOOSE i \in 1..Len(d.v) : d.v[i][1] = key][2]

\* str(n) of an int n >= 0
DigitChars == <<"0","1","2","3","4","5","6","7","8","9">>
RECURSIVE NatToStr(_)
NatToStr(n) ==
  IF n < 10 THEN <<DigitChars[n + 1]>>
  ELSE NatToStr(n \div 10) \o <<DigitChars[(n % 10) + 1]>>
IntToStr(n) == IF n < 0 THEN <<"-">> \o NatToStr(0 - n) ELSE NatToStr(n)

\* repr(x) of the float x = v / Scale
FloatRepr(v) ==
  LET a == IF v < 0 THEN 0 - v ELSE v
      frac == a % Scale
  IN  (IF v < 0 THEN <<"-">> ELSE <<>>) \o NatToStr(a \div Scale) \o <<".">>
        \o (IF frac % 10 = 0 THEN <<DigitChars[(frac \div 10) + 1]>>
            ELSE <<DigitChars[(frac \div 10) + 1], DigitChars[(frac % 10) + 1]>>)

\* str(x) of a str, int, float or bool
PyStr(x) ==
  CASE x.t = "str" -> x.v
    [] x.t = "int" -> IntToStr(x.v)
    [] x.t = "num" -> FloatRepr(x.v)
    [] x.t = "bool" -> IF x.v THEN <<"T","r","u","e">> ELSE <<"F","a","l","s","e">>

\* len(repr(s)) of a str: the quotes, and the escapes of \t, \n, the
\* backslash U+005C and \x00
EscapeLen(c) ==
  CASE c \in {"\t", "\n", "U+005C"} -> 2
    [] c = "U+0000" -> 4
    [] OTHER -> 1
RECURSIVE SumEscapeLen(_, _)
SumEscapeLen(s, i) == IF i > Len(s) THEN 0 ELSE EscapeLen(s[i]) + SumEscapeLen(s, i + 1)

\* len(str(x)), line 313
RECURSIVE ReprLen(_)
RECURSIVE SumReprLen(_, _, _)
SumReprLen(items, i, is_dict) ==
  IF i > Len(items) THEN 0
  ELSE (IF i > 1 THEN 2 ELSE 0)
       + (IF is_dict
            THEN SumEscapeLen(items[i][1], 1) + 2 + 2 + ReprLen(items[i][2])
            ELSE ReprLen(items[i]))
       + SumReprLen(items, i + 1, is_dict)
ReprLen(x) ==
  CASE x.t = "str" -> SumEscapeLen(x.v, 1) + 2
    [] x.t = "rep" -> x.v[2] * EscapeLen(x.v[1]) + 2
    [] x.t = "int" -> Len(IntToStr(x.v))
    [] x.t = "int10" -> IF x.v < 0 THEN 2 - x.v ELSE 1 + x.v
    [] x.t = "num" -> Len(FloatRepr(x.v))
    [] x.t = "inf" -> IF x.v < 0 THEN 4 ELSE 3
    [] x.t = "nan" -> 3
    [] x.t = "bool" -> IF x.v THEN 4 ELSE 5
    [] x.t = "none" -> 4
    [] x.t = "tower" -> x.v[2] * (IF x.v[1] THEN 2 ELSE 7) + ReprLen(x.v[3])
    [] x.t = "dict" -> 2 + SumReprLen(x.v, 1, TRUE)
    [] x.t = "list" -> 2 + SumReprLen(x.v, 1, FALSE)

\* x == y: dicts are equal when they hold the same keys with equal values,
\* in any order; an int equals the float of the same value
RECURSIVE Equal(_, _)
Equal(x, y) ==
  CASE x.t = "dict" /\ y.t = "dict" ->
         /\ Len(x.v) = Len(y.v)
         /\ \A i \in 1..Len(x.v) :
              HasKey(y, x.v[i][1]) /\ Equal(x.v[i][2], Get(y, x.v[i][1]))
    [] x.t = "list" /\ y.t = "list" ->
         /\ Len(x.v) = Len(y.v)
         /\ \A i \in 1..Len(x.v) : Equal(x.v[i], y.v[i])
    [] x.t \in {"int", "num", "bool"} /\ y.t \in {"int", "num", "bool"} ->
         (IF x.t = "int" THEN x.v * Scale ELSE ToFloat(x))
           = (IF y.t = "int" THEN y.v * Scale ELSE ToFloat(y))
    [] OTHER -> x = y

(***************************************************************************)
(* validators: unicodedata.normalize and re.search                         *)
(***************************************************************************)
\* NFKC of one character: the diaeresis U+00A8 is a space and the combining
\* diaeresis U+0308, the ligature U+FB01 is "fi", the full-width U+FF1C is
\* "<"; the other characters used here are their own normal form
NFKCChar(c) ==
  CASE c = "U+00A8" -> <<" ", "U+0308">>
    [] c = "U+FB01" -> <<"f", "i">>
    [] c = "U+FF1C" -> <<"<">>
    [] OTHER -> <<c>>

\* unicodedata.normalize('NFKC', s)
RECURSIVE NFKCSeq(_)
NFKCSeq(s) == IF s = <<>> THEN <<>> ELSE NFKCChar(Head(s)) \o NFKCSeq(Tail(s))
NFKC(x) == IF x.t = "rep" THEN x ELSE Str(NFKCSeq(x.v))

\* a regular expression is a sequence of items: a character class with the
\* least and the greatest number of repetitions (-1 for no limit), an
\* alternation of literals, \b, or ^
Cls(set, lo, hi) == [k |-> "cls", s |-> set, lo |-> lo, hi |-> hi]
Alt(words) == [k |-> "alt", a |-> words]
Boundary == [k |-> "b"]
Bol == [k |-> "bol"]

WhiteSpace == {" ", "\t", "\n"}
WordChars == Lower \cup Upper \cup Digits \cup {"_", "U+FB01"}

\* the items from the k-th on match s at position i
RECURSIVE MatchAt(_, _, _, _)
MatchAt(items, k, s, i) ==
  IF k > Len(items) THEN TRUE
  ELSE CASE items[k].k = "b" ->
              /\ (CharAt(s, i - 1) \in WordChars) # (CharAt(s, i) \in WordChars)
              /\ MatchAt(items, k + 1, s, i)
         [] items[k].k = "bol" -> i = 1 /\ MatchAt(items, k + 1, s, i)
         [] items[k].k = "alt" ->
              \E w \in items[k].a :
                /\ i + Len(w) - 1 <= Len(s)
                /\ SubSeq(s, i, i + Len(w) - 1) = w
                /\ MatchAt(items, k + 1, s, i + Len(w))
         [] items[k].k = "cls" ->
              \E n \in items[k].lo..(IF items[k].hi < 0 \/ items[k].hi > Len(s) - i + 1
                                       THEN Len(s) - i + 1 ELSE items[k].hi) :
                /\ \A j \in i..(i + n - 1) : s[j] \in items[k].s
                /\ MatchAt(items, k + 1, s, i + n)

\* re.search(pattern, s) is not None; a str c * n is searched in c * 3
re_search(pattern, x) ==
  LET s == IF x.t = "rep" THEN <<x.v[1], x.v[1], x.v[1]>> ELSE x.v
  IN  \E i \in 1..(Len(s) + 1) : MatchAt(pattern, 1, s, i)

INJECTION_PATTERNS ==
  <<
    \* line 42
    [pattern |-> << Alt({<<"U+0000">>}) >>,
     attack_type |-> <<"N","u","l","l"," ","b","y","t","e"," ","i","n","j","e","c","t","i","o","n">>],
    \* line 45
    [pattern |-> << Alt({<<"j","a","v","a","s","c","r","i","p","t">>}),
                  Cls(WhiteSpace, 0, -1),
                  Alt({<<":">>}) >>,
     attack_type |-> <<"J","a","v","a","S","c","r","i","p","t"," ","p","r","o","t","o","c","o","l">>],
    \* line 46
    [pattern |-> << Alt({<<"<">>}),
                  Cls(WhiteSpace, 0, -1),
                  Alt({<<"s","c","r","i","p","t">>, <<"i","f","r","a","m","e">>, <<"o","b","j","e","c","t">>, <<"e","m","b","e","d">>, <<"f","o","r","m">>, <<"i","n","p","u","t">>, <<"b","u","t","t","o","n">>}) >>,
     attack_type |-> <<"X","S","S"," ","t","a","g"," ","i","n","j","e","c","t","i","o","n">>],
    \* line 47
    [pattern |-> << Boundary,
                  Alt({<<"o","n">>}),
                  Cls(WordChars, 1, -1),
                  Cls(WhiteSpace, 0, -1),
                  Alt({<<"=">>}) >>,
     attack_type |-> <<"E","v","e","n","t"," ","h","a","n","d","l","e","r"," ","i","n","j","e","c","t","i","o","n">>],
    \* line 50
    [pattern |-> << Alt({<<".",".">>}),
                  Cls({"/","U+005C"}, 1, 1) >>,
     attack_type |-> <<"P","a","t","h"," ","t","r","a","v","e","r","s","a","l">>],
    \* line 51
    [pattern |-> << Bol,
                  Cls({"/","U+005C"}, 1, 1),
                  Alt({<<"e","t","c">>, <<"u","s","r">>, <<"v","a","r">>, <<"t","m","p">>}),
                  Cls({"/","U+005C"}, 1, 1) >>,
     attack_type |-> <<"S","y","s","t","e","m"," ","p","a","t","h"," ","a","c","c","e","s","s">>],
    \* line 52
    [pattern |-> << Cls(WhiteSpace, 1, 1),
                  Cls({"/","U+005C"}, 1, 1),
                  Alt({<<"e","t","c">>, <<"u","s","r">>, <<"v","a","r">>, <<"t","m","p">>}),
                  Cls({"/","U+005C"}, 1, 1) >>,
     attack_type |-> <<"S","y","s","t","e","m"," ","p","a","t","h"," ","a","c","c","e","s","s">>],
    \* line 55
    [pattern |-> << Alt({<<"'">>}),
                  Cls(WhiteSpace, 0, -1),
                  Alt({<<"o","r">>, <<"a","n","d">>}),
                  Cls(WhiteSpace, 0, -1),
                  Cls({"'","U+0022"}, 0, 1),
                  Cls(WhiteSpace, 0, -1),
                  Cls(Digits, 1, -1),
                  Cls(WhiteSpace, 0, -1),
                  Alt({<<"=">>}),
                  Cls(WhiteSpace, 0, -1),
                  Cls({"'","U+0022"}, 0, 1),
                  Cls(WhiteSpace, 0, -1),
                  Cls(Digits, 1, -1) >>,
     attack_type |-> <<"S","Q","L"," ","b","o","o","l","e","a","n"," ","i","n","j","e","c","t","i","o","n">>],
    \* line 56
    [pattern |-> << Alt({<<"U+0022">>}),
                  Cls(WhiteSpace, 0, -1),
                  Alt({<<"o","r">>, <<"a","n","d">>}),
                  Cls(WhiteSpace, 0, -1),
                  Cls({"'","U+0022"}, 0, 1),
                  Cls(WhiteSpace, 0, -1),
                  Cls(Digits, 1, -1),
                  Cls(WhiteSpace, 0, -1),
                  Alt({<<"=">>}),
                  Cls(WhiteSpace, 0, -1),
                  Cls({"'","U+0022"}, 0, 1),
                  Cls(WhiteSpace, 0, -1),
                  Cls(Digits, 1, -1) >>,
     attack_type |-> <<"S","Q","L"," ","b","o","o","l","e","a","n"," ","i","n","j","e","c","t","i","o","n">>],
    \* line 57
    [pattern |-> << Alt({<<"'">>}),
                  Alt({<<"o","r">>, <<"a","n","d">>}),
                  Cls({"'","U+0022"}, 0, 1),
                  Cls(Digits, 1, -1),
                  Cls({"'","U+0022"}, 0, 1),
                  Alt({<<"=">>}),
                  Cls({"'","U+0022"}, 0, 1),
                  Cls(Digits, 1, -1) >>,
     attack_type |-> <<"S","Q","L"," ","b","o","o","l","e","a","n"," ","i","n","j","e","c","t","i","o","n">>],
    \* line 58
    [pattern |-> << Alt({<<"U+0022">>}),
                  Alt({<<"o","r">>, <<"a","n","d">>}),
                  Cls({"'","U+0022"}, 0, 1),
                  Cls(Digits, 1, -1),
                  Cls({"'","U+0022"}, 0, 1),
                  Alt({<<"=">>}),
                  Cls({"'","U+0022"}, 0, 1),
                  Cls(Digits, 1, -1) >>,
     attack_type |-> <<"S","Q","L"," ","b","o","o","l","e","a","n"," ","i","n","j","e","c","t","i","o","n">>],
    \* line 59
    [pattern |-> << Alt({<<"'">>}),
                  Cls(WhiteSpace, 0, -1),
                  Alt({<<"o","r">>, <<"a","n","d">>}),
                  Cls(WhiteSpace, 1, -1) >>,
     attack_type |-> <<"S","Q","L"," ","b","o","o","l","e","a","n"," ","i","n","j","e","c","t","i","o","n">>],
    \* line 60
    [pattern |-> << Alt({<<"U+0022">>}),
                  Cls(WhiteSpace, 0, -1),
                  Alt({<<"o","r">>, <<"a","n","d">>}),
                  Cls(WhiteSpace, 1, -1) >>,
     attack_type |-> <<"S","Q","L"," ","b","o","o","l","e","a","n"," ","i","n","j","e","c","t","i","o","n">>],
    \* line 61
    [pattern |-> << Alt({<<"'">>}),
                  Alt({<<"o","r">>, <<"a","n","d">>}) >>,
     attack_type |-> <<"S","Q","L"," ","b","o","o","l","e","a","n"," ","i","n","j","e","c","t","i","o","n">>],
    \* line 62
    [pattern |-> << Alt({<<"U+0022">>}),
                  Alt({<<"o","r">>, <<"a","n","d">>}) >>,
     attack_type |-> <<"S","Q","L"," ","b","o","o","l","e","a","n"," ","i","n","j","e","c","t","i","o","n">>],
    \* line 63
    [pattern |-> << Boundary,
                  Alt({<<"u","n","i","o","n">>, <<"s","e","l","e","c","t">>, <<"i","n","s","e","r","t">>, <<"u","p","d","a","t","e">>, <<"d","e","l","e","t","e">>, <<"d","r","o","p">>, <<"c","r","e","a","t","e">>, <<"a","l","t","e","r">>, <<"e","x","e","c">>, <<"e","x","e","c","u","t","e">>, <<"d","e","c","l","a","r","e">>, <<"c","a","s","t">>, <<"c","o","n","v","e","r","t">>}),
                  Boundary >>,
     attack_type |-> <<"S","Q","L"," ","i","n","j","e","c","t","i","o","n">>],
    \* line 64
    [pattern |-> << Alt({<<"-","-">>, <<"/","*">>, <<"*","/">>, <<"@","@">>, <<"@">>}) >>,
     attack_type |-> <<"S","Q","L"," ","c","o","m","m","e","n","t"," ","i","n","j","e","c","t","i","o","n">>],
    \* line 67
    [pattern |-> << Cls({";","&","|","U+0060","$","(",")"}, 1, 1) >>,
     attack_type |-> <<"C","o","m","m","a","n","d"," ","i","n","j","e","c","t","i","o","n">>],
    \* line 68
    [pattern |-> << Boundary,
                  Alt({<<"s","h">>, <<"b","a","s","h">>, <<"c","m","d">>, <<"p","o","w","e","r","s","h","e","l","l">>, <<"n","c">>, <<"n","e","t","c","a","t">>, <<"w","g","e","t">>, <<"c","u","r","l">>}),
                  Boundary >>,
     attack_type |-> <<"C","o","m","m","a","n","d"," ","e","x","e","c","u","t","i","o","n">>],
    \* line 71
    [pattern |-> << Alt({<<"_","_">>}),
                  Alt({<<"p","r","o","t","o">>, <<"c","o","n","s","t","r","u","c","t","o","r">>, <<"p","r","o","t","o","t","y","p","e">>}),
                  Alt({<<"_","_">>}) >>,
     attack_type |-> <<"P","r","o","t","o","t","y","p","e"," ","p","o","l","l","u","t","i","o","n">>]
  >>

\* first pattern of INJECTION_PATTERNS found in value_lower, 0 for none
FirstPattern(value_lower) ==
  LET First(patterns) ==
        IF \E k \in 1..Len(patterns) : re_search(patterns[k].pattern, value_lower)
          THEN CHOOSE k \in 1..Len(patterns) :
                 /\ re_search(patterns[k].pattern, value_lower)
                 /\ \A j \in 1..(k - 1) : ~re_search(patterns[j].pattern, value_lower)
        ELSE 0
  IN  First(INJECTION_PATTERNS)

(***************************************************************************)
(* error_taxonomy                                                          *)
(***************************************************************************)
\* ErrorCode: the value of each code
ErrorCode ==
  [TYPE_STRING_EXPECTED |-> <<"E","0","0","1">>, TYPE_NUMBER_EXPECTED |-> <<"E","0","0","2">>,
   TYPE_DICT_EXPECTED |-> <<"E","0","0","3">>, FIELD_REQUIRED |-> <<"E","1","0","0">>,
   FIELD_EMPTY |-> <<"E","1","0","1">>, INJECTION_SQL |-> <<"E","2","0","0">>,
   INJECTION_XSS |-> <<"E","2","0","1">>, INJECTION_COMMAND |-> <<"E","2","0","2">>,
   INJECTION_PATH_TRAVERSAL |-> <<"E","2","0","3">>, INJECTION_NULLBYTE |-> <<"E","2","0","6">>,
   DOS_LARGE_PAYLOAD |-> <<"E","3","0","0">>, VALUE_OUT_OF_RANGE |-> <<"E","4","0","0">>,
   VALUE_SPECIAL_NUMBER |-> <<"E","4","0","2">>, SIZE_TOO_LARGE |-> <<"E","5","0","0">>,
   DEPTH_EXCEEDED |-> <<"E","6","0","0">>]

\* create_error, lines 151-168: the category of a code value
ErrorCategory(code_value) ==
  CASE SubSeq(code_value, 1, 2) = <<"E","0">> -> "TYPE_ERROR"
    [] SubSeq(code_value, 1, 2) = <<"E","1">> -> "MISSING_FIELD"
    [] SubSeq(code_value, 1, 2) = <<"E","2">> -> "INJECTION_ATTACK"
    [] SubSeq(code_value, 1, 2) = <<"E","3">> -> "DOS_ATTACK"
    [] SubSeq(code_value, 1, 2) = <<"E","4">> -> "INVALID_VALUE"
    [] SubSeq(code_value, 1, 2) = <<"E","5">> -> "SIZE_LIMIT"
    [] SubSeq(code_value, 1, 2) = <<"E","6">> -> "DEPTH_LIMIT"
    [] OTHER -> "INVALID_VALUE"

\* create_error(code, ...): the ValidationError with its code and category
create_error(code) ==
  Raise("ValidationError", <<code, ErrorCategory(ErrorCode[code])>>)

(***************************************************************************)
(* validators: validate_trust_score                                        *)
(*                                                                         *)
(* The floats inf and nan are the values FloatInf and FloatNaN.  The       *)
(* result of is_bypass_active() at line 186 is the parameter active.       *)
(***************************************************************************)
FloatInf(sign) == [t |-> "inf", v |-> sign]
FloatNaN == [t |-> "nan", v |-> 0]

\* str.lower()
UpperSeq == <<"A","B","C","D","E","F","G","H","I","J","K","L","M",
              "N","O","P","Q","R","S","T","U","V","W","X","Y","Z">>
LowerSeq == <<"a","b","c","d","e","f","g","h","i","j","k","l","m",
              "n","o","p","q","r","s","t","u","v","w","x","y","z">>
LowerCh(c) ==
  IF c \in Upper THEN LowerSeq[CHOOSE i \in 1..26 : UpperSeq[i] = c] ELSE c
StrLower(s) == [i \in 1..Len(s) |-> LowerCh(s[i])]

\* p in s
Contains(s, p) ==
  \E i \in 1..(Len(s) - Len(p) + 1) : SubSeq(s, i, i + Len(p) - 1) = p

S_inf == <<"i","n","f">>
S_infinity == <<"i","n","f","i","n","i","t","y">>
S_nan == <<"n","a","n">>

\* s is digits with at most one point and at least one digit
IsDecimal(s) ==
  /\ \A i \in 1..Len(s) : IsDigit(s[i]) \/ s[i] = "."
  /\ Cardinality({i \in 1..Len(s) : s[i] = "."}) <= 1
  /\ \E i \in 1..Len(s) : IsDigit(s[i])

\* value of a decimal, to two decimal digits
DecimalVal(s) ==
  LET e == SkipDigits(s, 1)
      frac == (IF IsDigit(CharAt(s, e + 1)) THEN DigitVal(s[e + 1]) * 10 ELSE 0)
              + (IF IsDigit(CharAt(s, e + 1)) /\ IsDigit(CharAt(s, e + 2))
                 THEN DigitVal(s[e + 2]) ELSE 0)
  IN  DigitsVal(s, 1, e) * Scale + frac

\* the int sign * 10 ** e for e >= 3, too large to be written out; v is
\* sign * e, and its float is tagged "num10"
IntPow10(sign, e) == [t |-> "int10", v |-> sign * e]

\* the greatest power of ten a float holds
DBL_MAX_10_EXP == 308

\* float(x): a str is stripped, then a sign, then inf, infinity, nan in any
\* case or a decimal (the strings used here have no exponent and no "_")
float(x) ==
  CASE x.t = "bool" -> Return(<<Num(ToFloat(x))>>)
    [] x.t = "int" -> Return(<<Num(x.v * Scale)>>)
    [] x.t = "int10" ->
         IF x.v > DBL_MAX_10_EXP \/ 0 - x.v > DBL_MAX_10_EXP
           THEN Raise("OverflowError", <<>>)
         ELSE Return(<<[t |-> "num10", v |-> x.v]>>)
    [] x.t \in {"num", "inf", "nan"} -> Return(<<x>>)
    [] x.t = "none" -> Raise("TypeError", <<>>)
    [] x.t = "str" ->
         LET u == StrLower(Strip(x.v))
             signed == u # <<>> /\ Head(u) \in {"+", "-"}
             sign == IF signed /\ Head(u) = "-" THEN 0 - 1 ELSE 1
             body == IF signed THEN Tail(u) ELSE u
         IN  IF body \in {S_inf, S_infinity} THEN Return(<<FloatInf(sign)>>)
             ELSE IF body = S_nan THEN Return(<<FloatNaN>>)
             ELSE IF IsDecimal(body) THEN Return(<<Num(sign * DecimalVal(body))>>)
             ELSE Raise("ValueError", <<>>)

\* validate_trust_score, lines 242-265: the checks on numeric_score
CheckNumericScore(numeric_score) ==
  IF numeric_score.t = "nan" THEN create_error("VALUE_SPECIAL_NUMBER")
  ELSE IF numeric_score.t = "inf" THEN create_error("VALUE_SPECIAL_NUMBER")
  ELSE IF numeric_score.t = "num10" THEN create_error("VALUE_OUT_OF_RANGE")
  ELSE IF numeric_score.v < 0 \/ numeric_score.v > 100 * Scale
    THEN create_error("VALUE_OUT_OF_RANGE")
  ELSE Return(<<numeric_score>>)

validate_trust_score(score, required, active) ==
  IF active
    THEN IF score.t = "none"
           THEN Return(<<IF ~required THEN None ELSE Num(0)>>)
         ELSE IF float(score).st = "ok" THEN float(score)
         ELSE Return(<<Num(0)>>)
  ELSE IF score.t = "none"
    THEN IF required THEN create_error("FIELD_REQUIRED") ELSE Return(<<None>>)
  ELSE IF score.t = "bool" THEN create_error("VALUE_SPECIAL_NUMBER")
  ELSE IF score.t = "str"
    THEN LET score_lower == Strip(StrLower(score.v))
         IN  IF Contains(score_lower, S_inf) THEN create_error("VALUE_SPECIAL_NUMBER")
             ELSE IF score_lower = S_nan THEN create_error("VALUE_SPECIAL_NUMBER")
             ELSE IF float(score).st # "ok" THEN create_error("TYPE_NUMBER_EXPECTED")
             ELSE CheckNumericScore(float(score).ret[1])
  ELSE IF score.t \in {"int", "int10", "num", "inf", "nan"}
    THEN IF float(score).st # "ok" THEN float(score)
         ELSE CheckNumericScore(float(score).ret[1])
  ELSE create_error("TYPE_NUMBER_EXPECTED")

(***************************************************************************)
(* validators: validate_role                                               *)
(*                                                                         *)
(* The result of is_bypass_active() is the parameter active.               *)
(***************************************************************************)
S_anonymous == <<"a","n","o","n","y","m","o","u","s">>

\* validate_role, lines 138-148, and validate_nested_value, lines 448-458:
\* the error code of an attack type
InjectionCode(attack_type) ==
  IF Contains(StrLower(attack_type), <<"n","u","l","l"," ","b","y","t","e">>) THEN "INJECTION_NULLBYTE"
  ELSE IF \/ Contains(StrLower(attack_type), <<"x","s","s">>)
          \/ Contains(StrLower(attack_type), <<"j","a","v","a","s","c","r","i","p","t">>)
          \/ Contains(StrLower(attack_type), <<"e","v","e","n","t"," ","h","a","n","d","l","e","r">>)
    THEN "INJECTION_XSS"
  ELSE IF \/ Contains(StrLower(attack_type), <<"c","o","m","m","a","n","d"," ","i","n","j","e","c","t","i","o","n">>)
          \/ Contains(StrLower(attack_type), <<"c","o","m","m","a","n","d"," ","e","x","e","c","u","t","i","o","n">>)
    THEN "INJECTION_COMMAND"
  ELSE IF Contains(StrLower(attack_type), <<"p","a","t","h"," ","t","r","a","v","e","r","s","a","l">>)
    THEN "INJECTION_PATH_TRAVERSAL"
  ELSE "INJECTION_SQL"

\* validate_agent_context, lines 373-381: the error code of an attack type
\* found in a string field of the context
FieldInjectionCode(attack_type) ==
  IF Contains(attack_type, <<"X","S","S">>) THEN "INJECTION_XSS"
  ELSE IF \/ Contains(StrLower(attack_type), <<"c","o","m","m","a","n","d">>)
          \/ Contains(StrLower(attack_type), <<"s","h","e","l","l">>)
    THEN "INJECTION_COMMAND"
  ELSE IF Contains(StrLower(attack_type), <<"p","a","t","h">>) THEN "INJECTION_PATH_TRAVERSAL"
  ELSE IF Contains(StrLower(attack_type), <<"n","u","l","l">>) THEN "INJECTION_NULLBYTE"
  ELSE "INJECTION_SQL"

\* lower() of a str
Lowered(x) == IF x.t = "rep" THEN Rep(LowerCh(x.v[1]), x.v[2]) ELSE Str(StrLower(x.v))

\* strip() of a str
Stripped(x) ==
  IF x.t = "rep" THEN (IF IsSpace(x.v[1]) THEN Str(<<>>) ELSE x) ELSE Str(Strip(x.v))

validate_role(role, active) ==
  IF active
    THEN IF role.t = "none" THEN Return(<<Str(S_anonymous)>>)
         ELSE IF IsStr(role) THEN Return(<<role>>)
         ELSE Return(<<Str(PyStr(role))>>)
  ELSE IF role.t = "none" THEN create_error("FIELD_REQUIRED")
  ELSE IF ~IsStr(role) THEN create_error("TYPE_STRING_EXPECTED")
  ELSE IF StrLen(Stripped(role)) = 0 THEN create_error("FIELD_EMPTY")
  ELSE LET normalized_role == NFKC(Stripped(role))
           found == FirstPattern(Lowered(normalized_role))
       IN  IF StrLen(normalized_role) > 100 THEN create_error("SIZE_TOO_LARGE")
           ELSE IF found # 0
             THEN create_error(InjectionCode(INJECTION_PATTERNS[found].attack_type))
           ELSE Return(<<normalized_role>>)

(***************************************************************************)
(* validators: validate_nested_value, validate_json_depth and              *)
(* validate_agent_context                                                  *)
(***************************************************************************)
MAX_CONTENT_SIZE == 1048576
MAX_STRING_LENGTH == 10240
MAX_JSON_DEPTH == 100

S_trustScoreKey == <<"t","r","u","s","t","S","c","o","r","e">>
ProtoKeys == {<<"_","_","p","r","o","t","o","_","_">>, <<"c","o","n","s","t","r","u","c","t","o","r">>, <<"p","r","o","t","o","t","y","p","e">>}

\* the checks of a str value, lines 357-389 and 432-466: the length, the
\* normal form and the injection patterns; code_of maps the attack type
CheckString(value, in_context) ==
  IF StrLen(value) > MAX_STRING_LENGTH THEN create_error("SIZE_TOO_LARGE")
  ELSE LET found == FirstPattern(Lowered(NFKC(value)))
       IN  IF found = 0 THEN Return(<<NFKC(value)>>)
           ELSE LET attack_type == INJECTION_PATTERNS[found].attack_type
                IN  IF in_context THEN create_error(FieldInjectionCode(attack_type))
                    ELSE create_error(InjectionCode(attack_type))

\* validate_nested_value(value, path, current_depth); ValidateItems is the
\* loop over the pairs of a dict or the items of a list, validated holding
\* what has been validated so far
RECURSIVE validate_nested_value(_, _)
RECURSIVE ValidateItems(_, _, _, _, _)
ValidateItems(items, i, validated, is_dict, current_depth) ==
  IF i > Len(items) THEN Return(<<validated>>)
  ELSE IF is_dict /\ items[i][1] \in ProtoKeys
    THEN ValidateItems(items, i + 1, validated, is_dict, current_depth)
  ELSE LET r == validate_nested_value(IF is_dict THEN items[i][2] ELSE items[i],
                                      current_depth + 1)
       IN  IF r.st = "raise" THEN r
           ELSE ValidateItems(items, i + 1,
                              Append(validated,
                                     IF is_dict THEN <<items[i][1], r.ret[1]>>
                                     ELSE r.ret[1]),
                              is_dict, current_depth)
validate_nested_value(value, current_depth) ==
  IF current_depth > MAX_JSON_DEPTH THEN create_error("DEPTH_EXCEEDED")
  ELSE IF IsStr(value) THEN CheckString(value, FALSE)
  ELSE IF value.t = "tower"
    THEN IF current_depth + value.v[2] > MAX_JSON_DEPTH
           THEN create_error("DEPTH_EXCEEDED")
         ELSE LET r == validate_nested_value(value.v[3], current_depth + value.v[2])
              IN  IF r.st = "raise" THEN r
                  ELSE Return(<<Tower(value.v[1], value.v[2], r.ret[1])>>)
  ELSE IF value.t = "dict"
    THEN LET r == ValidateItems(value.v, 1, <<>>, TRUE, current_depth)
         IN  IF r.st = "raise" THEN r ELSE Return(<<Dict(r.ret[1])>>)
  ELSE IF value.t = "list"
    THEN LET r == ValidateItems(value.v, 1, <<>>, FALSE, current_depth)
         IN  IF r.st = "raise" THEN r ELSE Return(<<List(r.ret[1])>>)
  ELSE Return(<<value>>)

\* validate_json_depth(obj, current_depth) raises
RECURSIVE DepthExceeded(_, _)
DepthExceeded(obj, current_depth) ==
  IF current_depth > MAX_JSON_DEPTH THEN TRUE
  ELSE IF obj.t = "tower"
    THEN \/ current_depth + obj.v[2] > MAX_JSON_DEPTH
         \/ DepthExceeded(obj.v[3], current_depth + obj.v[2])
  ELSE IF obj.t = "dict"
    THEN \E i \in 1..Len(obj.v) : DepthExceeded(obj.v[i][2], current_depth + 1)
  ELSE IF obj.t = "list"
    THEN \E i \in 1..Len(obj.v) : DepthExceeded(obj.v[i], current_depth + 1)
  ELSE FALSE
validate_json_depth(obj) ==
  IF DepthExceeded(obj, 0) THEN create_error("DEPTH_EXCEEDED") ELSE Return(<<>>)

S_agent == <<"a","g","e","n","t">>
S_agent_redact == <<"a","g","e","n","t","-","r","e","d","a","c","t">>

\* validate_agent_context, lines 346-392: the loop over the other fields
RECURSIVE OtherFields(_, _, _)
OtherFields(items, i, validated) ==
  IF i > Len(items) THEN Return(<<validated>>)
  ELSE IF items[i][1] \in {S_role, S_trustScoreKey} \cup ProtoKeys
    THEN OtherFields(items, i + 1, validated)
  ELSE LET r == IF IsStr(items[i][2]) THEN CheckString(items[i][2], TRUE)
                ELSE validate_nested_value(items[i][2], 0)
       IN  IF r.st = "raise" THEN r
           ELSE OtherFields(items, i + 1, Append(validated, <<items[i][1], r.ret[1]>>))

\* the trustScore pair with the trustScore optional for every source
TrustScoreFieldOptional(ctx, source) ==
  IF source \in {S_agent, S_agent_redact} /\ HasKey(ctx, S_trustScoreKey)
    THEN LET r == validate_trust_score(Get(ctx, S_trustScoreKey), FALSE, FALSE)
         IN  IF r.st = "raise" THEN r
             ELSE IF r.ret[1] # None
               THEN Return(<<<<<<S_trustScoreKey, r.ret[1]>>>>>>)
             ELSE Return(<<<<>>>>)
  ELSE Return(<<<<>>>>)

\* the trustScore pair stored as it was given once it validated
TrustScoreFieldAsGiven(ctx, source) ==
  IF source = S_agent
    THEN IF ~HasKey(ctx, S_trustScoreKey) THEN create_error("FIELD_REQUIRED")
         ELSE LET r == validate_trust_score(Get(ctx, S_trustScoreKey), TRUE, FALSE)
              IN  IF r.st = "raise" THEN r
                  ELSE Return(<<<<<<S_trustScoreKey, Get(ctx, S_trustScoreKey)>>>>>>)
  ELSE IF source = S_agent_redact /\ HasKey(ctx, S_trustScoreKey)
    THEN LET r == validate_trust_score(Get(ctx, S_trustScoreKey), FALSE, FALSE)
         IN  IF r.st = "raise" THEN r
             ELSE IF r.ret[1] # None
               THEN Return(<<<<<<S_trustScoreKey, Get(ctx, S_trustScoreKey)>>>>>>)
             ELSE Return(<<<<>>>>)
  ELSE Return(<<<<>>>>)

\* validate_agent_context, lines 332-344: the trustScore pair stored in
\* validated, <<>> when nothing is stored
TrustScoreField(ctx, source) ==
  IF source = S_agent
    THEN IF ~HasKey(ctx, S_trustScoreKey) THEN create_error("FIELD_REQUIRED")
         ELSE LET r == validate_trust_score(Get(ctx, S_trustScoreKey), TRUE, FALSE)
              IN  IF r.st = "raise" THEN r
                  ELSE Return(<<<<<<S_trustScoreKey, r.ret[1]>>>>>>)
  ELSE IF source = S_agent_redact /\ HasKey(ctx, S_trustScoreKey)
    THEN LET r == validate_trust_score(Get(ctx, S_trustScoreKey), FALSE, FALSE)
         IN  IF r.st = "raise" THEN r
             ELSE IF r.ret[1] # None
               THEN Return(<<<<<<S_trustScoreKey, r.ret[1]>>>>>>)
             ELSE Return(<<<<>>>>)
  ELSE Return(<<<<>>>>)

validate_agent_context(ctx, source, active) ==
  IF active
    THEN IF ctx.t # "dict"
           THEN Return(<<Dict(<<<<S_role, Str(S_anonymous)>>,
                                <<S_trustScoreKey, Num(0)>>>>)>>)
         ELSE Return(<<ctx>>)
  ELSE IF ctx.t # "dict" THEN create_error("TYPE_DICT_EXPECTED")
  ELSE IF ctx.v = <<>> THEN create_error("FIELD_EMPTY")
  ELSE IF ReprLen(ctx) > MAX_CONTENT_SIZE THEN create_error("DOS_LARGE_PAYLOAD")
  ELSE IF ~HasKey(ctx, S_role) THEN create_error("FIELD_REQUIRED")
  ELSE LET role == validate_role(Get(ctx, S_role), FALSE)
           score == TrustScoreField(ctx, source)
       IN  IF role.st = "raise" THEN role
           ELSE IF score.st = "raise" THEN score
           ELSE LET others == OtherFields(ctx.v, 1,
                                          <<<<S_role, role.ret[1]>>>> \o score.ret[1])
                IN  IF others.st = "raise" THEN others
                    ELSE IF validate_json_depth(Dict(others.ret[1])).st = "raise"
                      THEN validate_json_depth(Dict(others.ret[1]))
                    ELSE IF ReprLen(Dict(others.ret[1])) > MAX_CONTENT_SIZE
                      THEN create_error("DOS_LARGE_PAYLOAD")
                    ELSE Return(<<Dict(others.ret[1])>>)

(***************************************************************************)
(* runtime_bypass: bypass_validation and the module-level functions, as    *)
(* steps of the threads                                                    *)
(***************************************************************************)
MaxDepth == 2       \* bypass_validation blocks a thread nests
MaxBypasses == 2    \* bypasses created in a run

Reasons == {<<>>, <<" ">>, <<"f","i","x">>}
Durations == {1, 3600, 3601}
Users == {<<>>}

\* an open bypass_validation block: its bypass and its global_bypass argument
Guard(bypass, is_global) == [bypass |-> bypass, global_bypass |-> is_global]

Outcome(t, op, res) == [thread |-> t, op |-> op, res |-> res]

\* the checks of bypass_validation without the strip of the reason
BypassRefusedUnstripped(reason, duration_seconds) ==
  IF reason = <<>> THEN "Bypass reason is required for audit trail"
  ELSE IF duration_seconds > 3600 THEN "Bypass duration cannot exceed 1 hour"
  ELSE ""

\* bypass_validation, lines 194-198: the ValueError raised, "" for none
BypassRefused(reason, duration_seconds) ==
  IF reason = <<>> \/ Strip(reason) = <<>>
    THEN "Bypass reason is required for audit trail"
  ELSE IF duration_seconds > 3600 THEN "Bypass duration cannot exceed 1 hour"
  ELSE ""

\* monitoring.record_bypass: bypass_uses after the append
record_bypass(uses, bypass_info, time) ==
  Append(uses, [info |-> bypass_info, timestamp |-> time])

\* bypass_validation, lines 194-204: the checks, create_bypass (the store
\* and record_bypass_use) and the yield of the guard
BypassValidation(t, reason, duration_seconds, user, is_global) ==
  /\ Len(guards[t]) < MaxDepth
  /\ Len(bypass_uses) < MaxBypasses
  /\ IF BypassRefused(reason, duration_seconds) # ""
       THEN /\ last' = Outcome(t, "bypass_validation",
                                BypassRefused(reason, duration_seconds))
            /\ UNCHANGED <<bypasses, global_bypass, guards, bypass_uses>>
       ELSE LET bypass == BypassContext(reason, duration_seconds, user, now, t)
            IN  /\ bypasses' = create_bypass_table(bypasses, bypass, t, is_global)
                /\ global_bypass' = create_bypass_global(global_bypass, bypass, is_global)
                /\ bypass_uses' = record_bypass(bypass_uses, to_dict(bypass, now), now)
                /\ guards' = [guards EXCEPT ![t] = Append(@, Guard(bypass, is_global))]
                /\ last' = Outcome(t, "bypass_validation", "")
  /\ UNCHANGED now
  /\ UNCHANGED <<evalVars, metricVars, stepVars>>

\* the finally clause of bypass_validation, lines 205-212: the innermost
\* block of the thread ends, normally or by an exception
ExitGuard(t, raised) ==
  /\ guards[t] # <<>>
  /\ LET g == guards[t][Len(guards[t])]
     IN  /\ bypasses' = clear_bypass_table(bypasses, t, 0, g.global_bypass)
         /\ global_bypass' = clear_bypass_global(global_bypass, g.global_bypass)
  /\ guards' = [guards EXCEPT ![t] = SubSeq(@, 1, Len(@) - 1)]
  /\ last' = Outcome(t, "exit", raised)
  /\ UNCHANGED <<now, bypass_uses>>
  /\ UNCHANGED <<evalVars, metricVars, stepVars>>

\* is_bypass_active()
IsBypassActive(t) ==
  /\ last' = Outcome(t, "is_bypass_active",
                     is_bypass_active(bypasses, global_bypass, now, t))
  /\ bypasses' = is_bypass_active_table(bypasses, global_bypass, now, t)
  /\ UNCHANGED <<now, global_bypass, guards, bypass_uses>>
  /\ UNCHANGED <<evalVars, metricVars, stepVars>>

\* get_active_bypass(): bypass.to_dict() if bypass else None
GetActiveBypass(t) ==
  /\ LET bypass == get_active_bypass(bypasses, global_bypass, now, t)
     IN  last' = Outcome(t, "get_active_bypass",
                         IF bypass # NoBypass THEN to_dict(bypass, now)
                         ELSE to_dict(NoBypass, 0))
  /\ UNCHANGED <<now, bypasses, global_bypass, guards, bypass_uses>>
  /\ UNCHANGED <<evalVars, metricVars, stepVars>>

\* get_all_bypasses()
GetAllBypasses(t) ==
  /\ last' = Outcome(t, "get_all_bypasses",
                     get_all_bypasses(bypasses, global_bypass, now))
  /\ bypasses' = get_all_bypasses_table(bypasses, now)
  /\ UNCHANGED <<now, global_bypass, guards, bypass_uses>>
  /\ UNCHANGED <<evalVars, metricVars, stepVars>>

\* clear_all_bypasses()
ClearAllBypasses(t) ==
  /\ bypasses' = [u \in Threads |-> NoBypass]
  /\ global_bypass' = NoBypass
  /\ last' = Outcome(t, "clear_all_bypasses", FALSE)
  /\ UNCHANGED <<now, guards, bypass_uses>>
  /\ UNCHANGED <<evalVars, metricVars, stepVars>>

\* the clock advances
Tick ==
  /\ now < MaxTime
  /\ now' = now + 1
  /\ UNCHANGED <<bypasses, global_bypass, guards, bypass_uses, last>>
  /\ UNCHANGED <<evalVars, metricVars, stepVars>>

(***************************************************************************)
(* monitoring: record_validation, get_summary and reset; and the           *)
(* validators, get_validation_metrics and reset_metrics as steps of the    *)
(* threads.  A validator reads is_bypass_active() once in a step.          *)
(***************************************************************************)
\* ValidationMetrics.__init__
ValidationTypes == {"role", "trustScore", "context"}
ErrorTypes == {"ValidationError", "OverflowError"}
InitMetrics ==
  /\ validation_times = <<>>
  /\ validation_counts = [type \in ValidationTypes |-> 0]
  /\ rejection_counts = [type \in ValidationTypes |-> 0]
  /\ error_types = [e \in ErrorTypes |-> 0]

MaxValidations == 1   \* validator calls recorded between two resets

max_history == 10000

\* monitor_validation, lines 156-170: what the wrapper records of a call
\* of a validator that ended as r
Record(validation_type, r) ==
  [type |-> validation_type, success |-> r.st = "ok", error_type |-> r.exc]

\* ValidationMetrics.record_validation for each of the records, in order
RecordValidations(records) ==
  /\ validation_times' =
       (LET all == validation_times
                     \o [i \in 1..Len(records) |->
                           [type |-> records[i].type, success |-> records[i].success]]
        IN  IF Len(all) > max_history
              THEN SubSeq(all, Len(all) - max_history + 1, Len(all)) ELSE all)
  /\ validation_counts' =
       [type \in ValidationTypes |->
          validation_counts[type]
            + Cardinality({i \in 1..Len(records) : records[i].type = type})]
  /\ rejection_counts' =
       [type \in ValidationTypes |->
          rejection_counts[type]
            + Cardinality({i \in 1..Len(records) :
                             records[i].type = type /\ ~records[i].success})]
  /\ error_types' =
       [e \in ErrorTypes |->
          error_types[e]
            + Cardinality({i \in 1..Len(records) :
                             ~records[i].success /\ records[i].error_type = e})]

\* sum(counts.values())
Total(counts) == counts["role"] + counts["trustScore"] + counts["context"]

\* ValidationMetrics.get_summary: the counts and the bypass entries of the
\* summary (the timing entries are left out)
get_summary(counts, rejections, errors, uses) ==
  IF Total(counts) = 0 THEN [message |-> "No validations performed yet"]
  ELSE [total_validations |-> Total(counts),
        total_rejections |-> Total(rejections),
        validation_counts |-> [type \in {u \in ValidationTypes : counts[u] > 0} |-> counts[type]],
        error_types |-> [e \in {u \in ErrorTypes : errors[u] > 0} |-> errors[e]],
        bypass_count |-> Len(uses),
        recent_bypasses |->
          SubSeq(uses, IF Len(uses) > 5 THEN Len(uses) - 4 ELSE 1, Len(uses))]

\* what a validator call leaves in last: the arguments, the answer of
\* is_bypass_active() and the result
Called(args, active, r) == [args |-> args, active |-> active, r |-> r]

\* the records of the calls of validate_role and validate_trust_score that
\* validate_agent_context makes, lines 330-344
ContextRecords(ctx, source, active) ==
  IF \/ active \/ ctx.t # "dict" \/ ctx.v = <<>>
     \/ ReprLen(ctx) > MAX_CONTENT_SIZE \/ ~HasKey(ctx, S_role)
    THEN <<>>
  ELSE LET role == validate_role(Get(ctx, S_role), FALSE)
       IN  <<Record("role", role)>>
           \o (IF /\ role.st = "ok"
                  /\ source \in {S_agent, S_agent_redact}
                  /\ HasKey(ctx, S_trustScoreKey)
                 THEN <<Record("trustScore",
                               validate_trust_score(Get(ctx, S_trustScoreKey),
                                                    source = S_agent, FALSE))>>
               ELSE <<>>)

(***************************************************************************)
(* Inputs of the validators                                                *)
(***************************************************************************)
S_fix == <<"f","i","x">>
S_note == <<"n","o","t","e">>

RoleInputs ==
  {None, PyInt(5), Str(<<>>), Str(<<"x">>), Str(<<" ","a","d","m","i","n"," ">>), Str(<<"U+00A8">>), Str(<<"a",";","b">>)}

ScoreInputs ==
  {None, Bool(TRUE), PyInt(85), PyInt(150), PyInt(0 - 1), Num(8550), Num(10001),
   IntPow10(1, 400), FloatInf(1), FloatNaN,
   Str(<<"8","5">>), Str(<<" ","8","5",".","5"," ">>), Str(<<"0">>), Str(<<"1","0","0",".","0">>), Str(<<"1","5","0">>), Str(<<"a","b","c">>),
   Str(<<"i","n","f">>), Str(<<"-","I","n","f","i","n","i","t","y">>), Str(<<"N","a","N">>)}

\* a context with the role, the trustScore (absent when has_score is false)
\* and the other fields
Ctx(role, has_score, score, others) ==
  Dict(<<<<S_role, role>>>>
       \o (IF has_score THEN <<<<S_trustScoreKey, score>>>> ELSE <<>>)
       \o others)

ContextInputs ==
  {Str(<<"x">>), Dict(<<>>), Dict(<<<<S_trustScoreKey, PyInt(5)>>>>),
   Ctx(Str(<<"x">>), FALSE, None, <<>>),
   Ctx(Str(<<"x">>), TRUE, PyInt(85), <<>>),
   Ctx(Str(<<" ","y"," ">>), TRUE, Str(<<"8","5">>), <<>>),
   Ctx(Str(<<"x">>), TRUE, None, <<>>),
   Ctx(Str(<<"x">>), TRUE, Str(<<"a","b","c">>), <<>>),
   Ctx(Str(<<"x">>), TRUE, PyInt(150), <<>>),
   Ctx(Str(<<"U+00A8">>), TRUE, PyInt(85), <<>>),
   Ctx(Str(<<"x">>), TRUE, PyInt(5), <<<<S_note, Str(<<"U+00A8">>)>>>>),
   Ctx(Str(<<"x">>), TRUE, PyInt(5), <<<<S_note, Str(<<"a",";","b">>)>>>>),
   Ctx(Str(<<"x">>), TRUE, PyInt(5),
       <<<<<<"_","_","p","r","o","t","o","_","_">>, PyInt(1)>>,
         <<<<"d">>, Dict(<<<<<<"a">>, Str(<<"b">>)>>, <<<<"c">>, List(<<PyInt(1), Str(<<"x">>)>>)>>>>)>>>>),
   Ctx(Str(<<"x">>), TRUE, PyInt(5), <<<<S_note, Rep("a", 20000)>>>>),
   Ctx(Str(<<"x">>), TRUE, PyInt(5), <<<<S_note, Rep("a", MAX_CONTENT_SIZE)>>>>),
   Ctx(Str(<<"x">>), TRUE, PyInt(5), <<<<<<"d">>, Tower(FALSE, MAX_JSON_DEPTH - 1, PyInt(1))>>>>),
   Ctx(Str(<<"x">>), TRUE, PyInt(5), <<<<<<"d">>, Tower(FALSE, MAX_JSON_DEPTH, PyInt(1))>>>>)}

\* strings that match an injection pattern, as the role and as a field of
\* the context, at the top level and nested
InjectionRoles ==
  {Str(<<"j","a","v","a","s","c","r","i","p","t",":","a">>), Str(<<"a",";","b">>)}

InjectionContexts ==
  {Ctx(Str(<<"x">>), TRUE, PyInt(5), <<<<S_note, Str(<<"j","a","v","a","s","c","r","i","p","t",":","a">>)>>>>),
   Ctx(Str(<<"x">>), TRUE, PyInt(5), <<<<<<"d">>, Dict(<<<<S_note, Str(<<"j","a","v","a","s","c","r","i","p","t",":","a">>)>>>>)>>>>),
   Ctx(Str(<<"x">>), TRUE, PyInt(5), <<<<S_note, Str(<<"a",";","b">>)>>>>),
   Ctx(Str(<<"x">>), TRUE, PyInt(5), <<<<<<"d">>, Dict(<<<<S_note, Str(<<"a",";","b">>)>>>>)>>>>)}

Sources == {S_agent, S_agent_redact}

\* the validators on the inputs, computed once
RoleResults ==
  [role \in RoleInputs \cup InjectionRoles, active \in BOOLEAN |->
     validate_role(role, active)]

ScoreResults ==
  [score \in ScoreInputs, required \in BOOLEAN, active \in BOOLEAN |->
     validate_trust_score(score, required, active)]

ContextResults ==
  [ctx \in ContextInputs \cup InjectionContexts, source \in Sources,
   active \in BOOLEAN |->
     [r |-> validate_agent_context(ctx, source, active),
      records |-> ContextRecords(ctx, source, active)]]

\* validate_role(role)
ValidateRole(t, role) ==
  /\ Len(validation_times) < MaxValidations
  /\ \E active \in {is_bypass_active(bypasses, global_bypass, now, t)} :
       \E r \in {RoleResults[role, active]} :
         /\ last' = Outcome(t, "validate_role", Called(<<role>>, active, r))
         /\ RecordValidations(<<Record("role", r)>>)
  /\ bypasses' = is_bypass_active_table(bypasses, global_bypass, now, t)
  /\ UNCHANGED <<now, global_bypass, guards, bypass_uses>>
  /\ UNCHANGED <<evalVars, stepVars>>

\* validate_trust_score(score, required)
ValidateTrustScore(t, score, required) ==
  /\ Len(validation_times) < MaxValidations
  /\ \E active \in {is_bypass_active(bypasses, global_bypass, now, t)} :
       \E r \in {ScoreResults[score, required, active]} :
         /\ last' = Outcome(t, "validate_trust_score",
                            Called(<<score, required>>, active, r))
         /\ RecordValidations(<<Record("trustScore", r)>>)
  /\ bypasses' = is_bypass_active_table(bypasses, global_bypass, now, t)
  /\ UNCHANGED <<now, global_bypass, guards, bypass_uses>>
  /\ UNCHANGED <<evalVars, stepVars>>

\* validate_agent_context(context, source)
ValidateAgentContext(t, ctx, source) ==
  /\ Len(validation_times) < MaxValidations
  /\ \E active \in {is_bypass_active(bypasses, global_bypass, now, t)} :
       \E c \in {ContextResults[ctx, source, active]} :
         /\ last' = Outcome(t, "validate_agent_context",
                            Called(<<ctx, source>>, active, c.r))
         /\ RecordValidations(c.records \o <<Record("context", c.r)>>)
  /\ bypasses' = is_bypass_active_table(bypasses, global_bypass, now, t)
  /\ UNCHANGED <<now, global_bypass, guards, bypass_uses>>
  /\ UNCHANGED <<evalVars, stepVars>>

\* get_validation_metrics()
GetValidationMetrics(t) ==
  /\ last' = Outcome(t, "get_validation_metrics",
                     get_summary(validation_counts, rejection_counts,
                                 error_types, bypass_uses))
  /\ UNCHANGED <<now, bypasses, global_bypass, guards, bypass_uses>>
  /\ UNCHANGED <<evalVars, metricVars, stepVars>>

\* reset_metrics()
ResetMetrics(t) ==
  /\ validation_times' = <<>>
  /\ validation_counts' = [type \in ValidationTypes |-> 0]
  /\ rejection_counts' = [type \in ValidationTypes |-> 0]
  /\ error_types' = [e \in ErrorTypes |-> 0]
  /\ bypass_uses' = <<>>
  /\ last' = Outcome(t, "reset_metrics", FALSE)
  /\ UNCHANGED <<now, bypasses, global_bypass, guards>>
  /\ UNCHANGED <<evalVars, stepVars>>

(***************************************************************************)
(* Inputs of evaluate_condition                                            *)
(***************************************************************************)
S_a == <<"a">>
S_b == <<"b">>
S_z == <<"z">>
S_dept == <<"d","e","p","t">>

ConditionInputs ==
  {<<"a"," ",">"," ","0">>, <<"a"," ","=","="," ","5">>, <<"a"," ","=","="," ","a">>, <<"a">>,
   <<"x"," ",">"," ","1"," ","&","&"," ","y"," ",">"," ","1">>, <<"x"," ",">"," ","1"," ","|","|"," ","y"," ",">"," ","1">>, <<"x"," ",">"," ","1"," ","a","n","d"," ","y"," ",">"," ","1">>, <<"x"," ",">"," ","1"," ","o","r"," ","y"," ",">"," ","1">>,
   <<"(","x"," ",">"," ","1"," ","|","|"," ","y"," ",">"," ","1",")"," ","&","&"," ","z"," ",">"," ","1">>, <<"x"," ","&","&"," ","y">>, <<"(","x"," ",">"," ","1",")">>,
   <<"t","r","u","s","t","S","c","o","r","e"," ",">"," ","8","0">>, <<"8","0"," ","<"," ","t","r","u","s","t","S","c","o","r","e">>, <<"t","r","u","s","t","S","c","o","r","e"," ","=","="," ","1","5","0">>, <<"x"," ",">"," ","8","0">>, <<"8","0"," ","<"," ","x">>,
   <<"d","e","p","t">>, <<"d","e","p","t"," ","=","="," ","'","x","'">>, <<"r","o","l","e"," ","=","="," ","d","e","p","t">>, <<"r","o","l","e"," ","!","="," ","d","e","p","t">>, <<"1"," ","<"," ","d","e","p","t">>, <<"d","e","p","t"," ",">"," ","1">>}

ConditionContexts ==
  {(S_a :> Str(S_b)) @@ (S_b :> Str(S_a)),
   (S_a :> Str(S_a)),
   (S_a :> Str(S_b)) @@ (S_b :> Num(5 * Scale)),
   (S_a :> Num(5 * Scale)),
   (S_x :> Num(2 * Scale)) @@ (S_y :> Num(2 * Scale)) @@ (S_z :> Num(2 * Scale)),
   (S_x :> Num(2 * Scale)) @@ (S_y :> Num(0)) @@ (S_z :> Num(0)),
   (S_x :> Bool(TRUE)) @@ (S_y :> Bool(TRUE)),
   (S_x :> Str(<<"8","5">>)),
   (S_trustScore :> Str(<<"8","5">>)),
   (S_trustScore :> Num(85 * Scale)),
   (S_trustScore :> Num(150 * Scale)),
   (S_trustScore :> Num(0 - Scale)),
   (S_trustScore :> Bool(TRUE)),
   (S_role :> Str(S_dept)),
   (S_role :> Str(S_x))}

\* evaluate_condition on the inputs, computed once
ConditionResults ==
  [condition \in ConditionInputs, ctx \in ConditionContexts |->
     evaluate_condition(condition, ctx, {})]

\* evaluate_condition(condition, context) called by a thread on the
\* condition and the context of the run
EvaluateCondition(t) ==
  /\ pc = "start"
  /\ last' = Outcome(t, "evaluate_condition",
                     [args |-> <<policy.conditions[1], context>>,
                      r |-> ConditionResults[policy.conditions[1], context]])
  /\ calls' = Append(calls, policy.conditions[1])
  /\ pc' = "done"
  /\ UNCHANGED <<policy, context, idx, skipped_conditions, condition_results,
                 passed_conditions, failed_conditions, result>>
  /\ UNCHANGED <<now, bypasses, global_bypass, guards, bypass_uses>>
  /\ UNCHANGED <<metricVars, stepVars>>

(***************************************************************************)
(* monitoring: record_validation one statement at a time, under the lock   *)
(* of the metrics.  A statement counts[type] += 1 is a load and a store.   *)
(***************************************************************************)
MaxRecords == 3     \* calls of record_validation in a run

NoListing == [global |-> to_dict(NoBypass, 0), threads |-> {}, expired |-> {},
              visited |-> {}, size |-> 0]

NoLocal == [todo |-> <<>>, value |-> 0, listing |-> NoListing]

\* the lock is taken without waiting for its holder
AcquirableAlways(lock) == TRUE

\* with self._lock: the lock can be taken when no thread holds it
Acquirable(lock) == lock = 0

\* the wrapper of monitor_validation, lines 156-170: a validator has ended
\* and the thread is about to record its calls, the nested calls first
CallValidator(t, records) ==
  /\ tpc[t] = "idle"
  /\ Total(completed.calls) + Len(local[1].todo) + Len(local[2].todo)
       + Len(records) <= MaxRecords
  /\ local' = [local EXCEPT ![t].todo = records]
  /\ tpc' = [tpc EXCEPT ![t] = "finally"]
  /\ UNCHANGED <<frame, manager_lock, metrics_lock, completed>>
  /\ UNCHANGED <<evalVars, bypassVars, metricVars>>

\* record_validation, line 46: with self._lock
AcquireMetrics(t) ==
  /\ tpc[t] = "finally"
  /\ Acquirable(metrics_lock)
  /\ metrics_lock' = t
  /\ tpc' = [tpc EXCEPT ![t] = "append"]
  /\ UNCHANGED <<frame, local, manager_lock, completed>>
  /\ UNCHANGED <<evalVars, bypassVars, metricVars>>

\* record_validation, lines 48-53: the append to the deque
AppendTime(t) ==
  /\ tpc[t] = "append"
  /\ validation_times' =
       (LET all == Append(validation_times,
                          [type |-> local[t].todo[1].type,
                           success |-> local[t].todo[1].success])
        IN  IF Len(all) > max_history THEN Tail(all) ELSE all)
  /\ tpc' = [tpc EXCEPT ![t] = "count"]
  /\ UNCHANGED <<validation_counts, rejection_counts, error_types>>
  /\ UNCHANGED <<frame, local, manager_lock, metrics_lock, completed>>
  /\ UNCHANGED <<evalVars, bypassVars>>

\* the counter the thread is at, lines 56-60
Counter(at, record) ==
  CASE at = "count" -> validation_counts[record.type]
    [] at = "rejection" -> rejection_counts[record.type]
    [] at = "error" -> error_types[record.error_type]

\* lines 56-60: where the thread goes after the store
AfterStore(at, record) ==
  CASE at = "count" -> IF record.success THEN "release" ELSE "rejection"
    [] at = "rejection" -> IF record.error_type # "" THEN "error" ELSE "release"
    [] at = "error" -> "release"

\* the load of a statement counts[key] += 1, lines 56, 58 and 60
LoadCounter(t) ==
  /\ tpc[t] \in {"count", "rejection", "error"}
  /\ local[t].value = 0
  /\ local' = [local EXCEPT ![t].value = Counter(tpc[t], local[t].todo[1]) + 1]
  /\ UNCHANGED <<frame, tpc, manager_lock, metrics_lock, completed>>
  /\ UNCHANGED <<evalVars, bypassVars, metricVars>>

\* the store of a statement counts[key] += 1, lines 56, 58 and 60
StoreCounter(t) ==
  /\ tpc[t] \in {"count", "rejection", "error"}
  /\ local[t].value # 0
  /\ LET record == local[t].todo[1]
     IN  /\ validation_counts' =
               IF tpc[t] = "count"
                 THEN [validation_counts EXCEPT ![record.type] = local[t].value]
               ELSE validation_counts
         /\ rejection_counts' =
               IF tpc[t] = "rejection"
                 THEN [rejection_counts EXCEPT ![record.type] = local[t].value]
               ELSE rejection_counts
         /\ error_types' =
               IF tpc[t] = "error"
                 THEN [error_types EXCEPT ![record.error_type] = local[t].value]
               ELSE error_types
         /\ tpc' = [tpc EXCEPT ![t] = AfterStore(tpc[t], record)]
  /\ local' = [local EXCEPT ![t].value = 0]
  /\ UNCHANGED validation_times
  /\ UNCHANGED <<frame, manager_lock, metrics_lock, completed>>
  /\ UNCHANGED <<evalVars, bypassVars>>

\* the end of the with block of record_validation: the lock is released and
\* the call of record_validation has ended
ReleaseMetrics(t) ==
  /\ tpc[t] = "release"
  /\ metrics_lock' = 0
  /\ LET record == local[t].todo[1]
     IN  completed' =
           [calls |-> [completed.calls EXCEPT ![record.type] = @ + 1],
            raised |-> [completed.raised EXCEPT ![record.type] =
                          IF record.success THEN @ ELSE @ + 1]]
  /\ local' = [local EXCEPT ![t].todo = Tail(@)]
  /\ tpc' = [tpc EXCEPT ![t] = IF Len(local[t].todo) > 1 THEN "finally" ELSE "idle"]
  /\ UNCHANGED <<frame, manager_lock>>
  /\ UNCHANGED <<evalVars, bypassVars, metricVars>>

\* get_validation_metrics(): get_summary takes the lock, line 78
SnapshotMetrics(t) ==
  /\ tpc[t] = "idle"
  /\ Acquirable(metrics_lock)
  /\ GetValidationMetrics(t)

(***************************************************************************)
(* runtime_bypass: get_all_bypasses and clear_all_bypasses one statement   *)
(* at a time, the other functions in one step when the lock of the         *)
(* manager is free.  The loop of get_all_bypasses visits the entries in    *)
(* the order of the thread ids.                                            *)
(***************************************************************************)
\* len(self._bypasses)
Size(table) == Cardinality({u \in Threads : table[u] # NoBypass})

\* the entries the loop of get_all_bypasses has not visited
Unvisited(table, visited) == {u \in Threads : table[u] # NoBypass /\ u \notin visited}

\* a call that ends: the lock it holds is released and its value is in last
EndCall(t, op, res) ==
  /\ last' = Outcome(t, op, res)
  /\ manager_lock' = 0
  /\ tpc' = [tpc EXCEPT ![t] = "idle"]
  /\ local' = [local EXCEPT ![t] = NoLocal]

\* get_all_bypasses, line 154: with self._lock
GetAllBypassesAcquire(t) ==
  /\ tpc[t] = "idle"
  /\ Acquirable(manager_lock)
  /\ manager_lock' = t
  /\ tpc' = [tpc EXCEPT ![t] = "list_global"]
  /\ UNCHANGED <<frame, local, metrics_lock, completed>>
  /\ UNCHANGED <<evalVars, bypassVars, metricVars>>

\* get_all_bypasses, lines 155-162: the global slot is read into the result
\* and the iteration over the table starts
GetAllBypassesGlobal(t) ==
  /\ tpc[t] = "list_global"
  /\ local' = [local EXCEPT ![t].listing =
                 [global |-> IF global_bypass # NoBypass /\ is_active(global_bypass, now)
                               THEN to_dict(global_bypass, now) ELSE to_dict(NoBypass, 0),
                  threads |-> {}, expired |-> {}, visited |-> {},
                  size |-> Size(bypasses)]]
  /\ tpc' = [tpc EXCEPT ![t] = "list_next"]
  /\ UNCHANGED <<frame, manager_lock, metrics_lock, completed>>
  /\ UNCHANGED <<evalVars, bypassVars, metricVars>>

\* get_all_bypasses, lines 162-166: the iterator gives the next entry, or
\* raises RuntimeError when the size of the table has changed
GetAllBypassesNext(t) ==
  /\ tpc[t] = "list_next"
  /\ LET l == local[t].listing
         rest == Unvisited(bypasses, l.visited)
         u == CHOOSE v \in rest : \A w \in rest : v <= w
     IN  IF Size(bypasses) # l.size
           THEN EndCall(t, "get_all_bypasses", "RuntimeError")
         ELSE IF rest # {}
           THEN /\ local' = [local EXCEPT ![t].listing =
                               [l EXCEPT !.visited = @ \cup {u},
                                         !.threads = IF is_active(bypasses[u], now)
                                                       THEN @ \cup {<<u, to_dict(bypasses[u], now)>>}
                                                     ELSE @,
                                         !.expired = IF is_active(bypasses[u], now)
                                                       THEN @ ELSE @ \cup {u}]]
                /\ UNCHANGED <<last, manager_lock, tpc>>
         ELSE /\ tpc' = [tpc EXCEPT ![t] = "list_delete"]
              /\ UNCHANGED <<last, manager_lock, local>>
  /\ UNCHANGED <<now, bypasses, global_bypass, guards, bypass_uses>>
  /\ UNCHANGED <<frame, metrics_lock, completed>>
  /\ UNCHANGED <<evalVars, metricVars>>

\* get_all_bypasses, lines 168-171: the expired entries are deleted (a
\* KeyError when one is no longer there) and the result is returned
GetAllBypassesDelete(t) ==
  /\ tpc[t] = "list_delete"
  /\ LET l == local[t].listing
     IN  IF \E u \in l.expired : bypasses[u] = NoBypass
           THEN /\ EndCall(t, "get_all_bypasses", "KeyError")
                /\ UNCHANGED bypasses
         ELSE /\ EndCall(t, "get_all_bypasses",
                         [global |-> l.global, threads |-> l.threads])
              /\ bypasses' = [u \in Threads |->
                                IF u \in l.expired THEN NoBypass ELSE bypasses[u]]
  /\ UNCHANGED <<now, global_bypass, guards, bypass_uses>>
  /\ UNCHANGED <<frame, metrics_lock, completed>>
  /\ UNCHANGED <<evalVars, metricVars>>

\* clear_all_bypasses, line 234: _bypass_manager._bypasses.clear()
ClearAllTable(t) ==
  /\ tpc[t] = "idle"
  /\ bypasses' = [u \in Threads |-> NoBypass]
  /\ tpc' = [tpc EXCEPT ![t] = "clear_global"]
  /\ UNCHANGED <<now, global_bypass, guards, bypass_uses, last>>
  /\ UNCHANGED <<frame, local, manager_lock, metrics_lock, completed>>
  /\ UNCHANGED <<evalVars, metricVars>>

\* clear_all_bypasses, line 235: _bypass_manager._global_bypass = None
ClearAllGlobal(t) ==
  /\ tpc[t] = "clear_global"
  /\ global_bypass' = NoBypass
  /\ last' = Outcome(t, "clear_all_bypasses", FALSE)
  /\ tpc' = [tpc EXCEPT ![t] = "idle"]
  /\ UNCHANGED <<now, bypasses, guards, bypass_uses>>
  /\ UNCHANGED <<frame, local, manager_lock, metrics_lock, completed>>
  /\ UNCHANGED <<evalVars, metricVars>>

\* a method of the manager that holds the lock from its first statement to
\* its last, taken as one step: the thread is not inside another call and
\* the lock is free
Locked(t) == tpc[t] = "idle" /\ Acquirable(manager_lock)

(***************************************************************************)
(* evaluate_condition one step at a time: a position of a substitution of  *)
(* normalize_condition, an iteration of the loop of _tokenize, a call or   *)
(* a return of _evaluate_expression.  The call evaluates                   *)
(* policy.conditions[1] in context.                                        *)
(***************************************************************************)
MaxNesting == 21    \* parentheses and operators nested in a condition
MaxWords == 101     \* words of a condition

\* no call of _evaluate_expression has returned
Pending == [st |-> "none", ret |-> <<>>, exc |-> "", msg |-> <<>>]

\* frame in the states where evaluate_condition has not started (NoFrame),
\* and the frame of a call of _evaluate_expression
NoFrame == [s |-> <<>>, k |-> 0, i |-> 0, out |-> <<>>, tokens |-> <<>>,
            stack |-> <<>>, ret |-> Pending]

Call(tokens, visited_fields, depth) ==
  [tokens |-> tokens, visited |-> visited_fields, depth |-> depth,
   stage |-> "enter", i |-> 0, left |-> Pending]

\* evaluate_condition ends: the result or the exception is in last
EndCondition(out) ==
  /\ last' = Outcome(1, "evaluate_condition",
                     [args |-> <<policy.conditions[1], context>>, r |-> out])
  /\ calls' = Append(calls, policy.conditions[1])
  /\ pc' = "done"

\* evaluate_condition, lines 375-385
BeginCondition ==
  /\ pc = "start"
  /\ LET condition == policy.conditions[1]
     IN  IF condition = <<>>
           THEN /\ EndCondition(Raise("InvalidConditionError",
                                      <<"Condition cannot be empty or None">>))
                /\ UNCHANGED frame
         ELSE IF AllSpace(condition)
           THEN /\ EndCondition(Raise("InvalidConditionError",
                                      <<"Condition cannot be whitespace only">>))
                /\ UNCHANGED frame
         ELSE /\ frame' = [NoFrame EXCEPT !.s = condition, !.i = 1]
              /\ pc' = "save"
              /\ UNCHANGED <<last, calls>>

\* normalize_condition, line 338: the substitution of the literals at one
\* position
SaveStep ==
  /\ pc = "save"
  /\ IF frame.i > Len(frame.s)
       THEN /\ frame' = [frame EXCEPT !.s = frame.out, !.out = <<>>, !.k = 1, !.i = 1]
            /\ pc' = "sub"
     ELSE /\ frame' = [frame EXCEPT !.out = Append(@, SaveAt(frame.s, frame.i).item),
                                    !.i = SaveAt(frame.s, frame.i).next]
          /\ pc' = pc
  /\ UNCHANGED <<last, calls>>

\* normalize_condition, lines 341-345: substitution k at one position
SubStep ==
  /\ pc = "sub"
  /\ LET p == NormPasses[frame.k]
     IN  IF frame.i > Len(frame.s)
           THEN /\ frame' = [frame EXCEPT !.s = frame.out, !.out = <<>>, !.i = 1,
                                          !.k = IF frame.k < Len(NormPasses) THEN @ + 1 ELSE 0]
                /\ pc' = IF frame.k < Len(NormPasses) THEN "sub" ELSE "restore"
         ELSE IF PatMatch(p, frame.s, frame.i)
           THEN /\ frame' = [frame EXCEPT !.out = @ \o PatRepl(p), !.i = @ + PatLen(p)]
                /\ pc' = pc
         ELSE /\ frame' = [frame EXCEPT !.out = Append(@, frame.s[frame.i]), !.i = @ + 1]
              /\ pc' = pc
  /\ UNCHANGED <<last, calls>>

\* normalize_condition, lines 347-349: one item is a character again or the
\* literal it stands for
RestoreStep ==
  /\ pc = "restore"
  /\ IF frame.i > Len(frame.s)
       THEN /\ frame' = [frame EXCEPT !.s = frame.out, !.out = <<>>, !.i = 1]
            /\ pc' = "tokenize"
     ELSE /\ frame' = [frame EXCEPT
                         !.out = @ \o (IF frame.s[frame.i].isLit THEN frame.s[frame.i].lit
                                       ELSE <<frame.s[frame.i].c>>),
                         !.i = @ + 1]
          /\ pc' = pc
  /\ UNCHANGED <<last, calls>>

\* _tokenize, lines 97-177: one iteration of the loop; and evaluate_condition,
\* lines 387-389, when the loop has ended
TokenizeStep ==
  /\ pc = "tokenize"
  /\ IF frame.i > Len(frame.s)
       THEN IF frame.tokens = <<>>
              THEN /\ EndCondition(Raise("InvalidConditionError",
                                         <<"Condition produced no valid tokens">>))
                   /\ UNCHANGED frame
            ELSE /\ frame' = [frame EXCEPT !.stack = <<Call(frame.tokens, {}, 0)>>]
                 /\ pc' = "evaluate"
                 /\ UNCHANGED <<last, calls>>
     ELSE LET step == TokenStep(frame.s, frame.i, frame.tokens)
          IN  IF ~step.ok
                THEN /\ EndCondition(Wrapped(policy.conditions[1], step.msg))
                     /\ UNCHANGED frame
              ELSE /\ frame' = [frame EXCEPT !.i = step.i, !.tokens = step.tokens]
                   /\ pc' = pc
                   /\ UNCHANGED <<last, calls>>

\* the stack without its last frame
Pop(stack) == SubSeq(stack, 1, Len(stack) - 1)

\* the stack with its last frame replaced
Top(stack, call) == [stack EXCEPT ![Len(stack)] = call]

\* _evaluate_expression, lines 216-300: the newest call runs until it ends
\* or calls itself
ExpressionCall ==
  /\ pc = "evaluate"
  /\ frame.stack # <<>>
  /\ frame.ret = Pending
  /\ LET call == frame.stack[Len(frame.stack)]
         e == Expression(call.tokens, context, call.visited, call.depth)
     IN  /\ call.stage = "enter"
         /\ frame' =
              IF e.kind = "out"
                THEN [frame EXCEPT !.ret = e.out, !.stack = Pop(@)]
              ELSE IF e.kind = "paren"
                THEN [frame EXCEPT !.stack =
                        Append(Top(@, [call EXCEPT !.stage = "paren"]),
                               Call(e.tokens, e.visited, call.depth + 1))]
              ELSE [frame EXCEPT !.stack =
                      Append(Top(@, [call EXCEPT !.stage = "left", !.i = e.i,
                                                 !.visited = e.visited]),
                             Call(SubSeq(call.tokens, 1, e.i - 1), e.visited,
                                  call.depth + 1))]
  /\ UNCHANGED <<pc, last, calls>>

\* _evaluate_expression, lines 231 and 296-308: a call has ended and the
\* call that made it goes on
ExpressionReturn ==
  /\ pc = "evaluate"
  /\ frame.stack # <<>>
  /\ frame.ret # Pending
  /\ LET call == frame.stack[Len(frame.stack)]
     IN  frame' =
           IF call.stage = "paren" \/ frame.ret.st = "raise"
             THEN [frame EXCEPT !.stack = Pop(@)]
           ELSE IF call.stage = "left"
             THEN [frame EXCEPT
                     !.ret = Pending,
                     !.stack =
                       Append(Top(@, [call EXCEPT !.stage = "right", !.left = frame.ret]),
                              Call(SubSeq(call.tokens, call.i + 1, Len(call.tokens)),
                                   call.visited, call.depth + 1))]
           ELSE [frame EXCEPT
                   !.ret = Combined(call.tokens[call.i].value.v, call.left, frame.ret),
                   !.stack = Pop(@)]
  /\ UNCHANGED <<pc, last, calls>>

\* evaluate_condition, lines 389-396: the first call has ended
ExpressionEnd ==
  /\ pc = "evaluate"
  /\ frame.stack = <<>>
  /\ frame.ret # Pending
  /\ EndCondition(IF /\ frame.ret.st = "raise"
                     /\ frame.ret.exc \notin {"CircularReferenceError",
                                              "InvalidConditionError"}
                    THEN Wrapped(policy.conditions[1], frame.ret.msg)
                  ELSE frame.ret)
  /\ UNCHANGED frame

\* what the steps of evaluate_condition leave alone
EvaluationUnchanged ==
  /\ UNCHANGED <<policy, context, idx, skipped_conditions, condition_results,
                 passed_conditions, failed_conditions, result>>
  /\ UNCHANGED <<now, bypasses, global_bypass, guards, bypass_uses>>
  /\ UNCHANGED <<tpc, local, manager_lock, metrics_lock, completed>>
  /\ UNCHANGED metricVars

(***************************************************************************)
(* Inputs of the steps of evaluate_condition                               *)
(***************************************************************************)
\* n opening parentheses, x, n closing parentheses
Parens(n) == [k \in 1..n |-> "("] \o <<"x">> \o [k \in 1..n |-> ")"]

\* "a a ... a", n words
Words(n) == [k \in 1..(2 * n - 1) |-> IF k % 2 = 1 THEN "a" ELSE " "]

\* "1 == >|| 1 == >|| ... x", n operators that normalize_condition leaves
Ors(n) ==
  [k \in 1..(9 * n) |-> <<"1"," ","=","="," ",">","|","|"," ">>[((k - 1) % 9) + 1]]
    \o <<"x">>

StepConditions ==
  {Parens(MaxNesting - 1), Parens(MaxNesting), Words(MaxWords - 1), Words(MaxWords),
   Ors(1), Ors(MaxNesting - 1), Ors(MaxNesting),
   <<>>, <<" ">>, <<"'","'">>, <<"a"," ",">",">"," ","b">>, <<"(","x">>,
   <<"1"," ","=","="," ",">","&","&"," ","x">>,
   <<"d","e","p","t"," ","=","=","="," ","'","x"," ","|","|","'">>,
   <<"x"," ",">"," ","1"," ","&","&"," ","!","y">>,
   <<"x"," ","!","=","="," ","2">>}

StepContexts == {(S_x :> Num(200)) @@ (S_dept :> Str(<<"x"," ","|","|">>)), (S_x :> Num(0))}

(***************************************************************************)
(* Specifications                                                          *)
(***************************************************************************)
InitBypass ==
  /\ now = 0
  /\ bypasses = [t \in Threads |-> NoBypass]
  /\ global_bypass = NoBypass
  /\ guards = [t \in Threads |-> <<>>]
  /\ bypass_uses = <<>>
  /\ last = Outcome(0, "none", FALSE)

\* no call is under way and the locks are free
InitSteps ==
  /\ frame = NoFrame
  /\ tpc = [t \in Threads |-> "idle"]
  /\ local = [t \in Threads |-> NoLocal]
  /\ manager_lock = 0
  /\ metrics_lock = 0
  /\ completed = [calls |-> [type \in ValidationTypes |-> 0],
                  raised |-> [type \in ValidationTypes |-> 0]]

InitEvaluate ==
  /\ pc = "start"
  /\ idx = 0
  /\ skipped_conditions = <<>>
  /\ condition_results = <<>>
  /\ passed_conditions = <<>>
  /\ failed_conditions = <<>>
  /\ result = NoResult
  /\ calls = <<>>

\* one call of evaluate(context, policy) on any policy and context
InitPolicy ==
  /\ policy \in Policies
  /\ context \in Contexts
  /\ InitEvaluate
  /\ InitBypass
  /\ InitMetrics
  /\ InitSteps

NextPolicy ==
  \/ RoleOverride /\ UNCHANGED <<bypassVars, metricVars, stepVars>>
  \/ EnterLoop /\ UNCHANGED <<bypassVars, metricVars, stepVars>>
  \/ EvalCondition /\ UNCHANGED <<bypassVars, metricVars, stepVars>>
  \/ Decide /\ UNCHANGED <<bypassVars, metricVars, stepVars>>

SpecPolicy == InitPolicy /\ [][NextPolicy]_vars

\* the threads of a process using the bypass API
InitThreads ==
  /\ policy = [mask |-> <<>>, unmask_roles |-> <<>>, conditions |-> <<>>]
  /\ context = (S_role :> Str(S_y))
  /\ InitEvaluate
  /\ InitBypass
  /\ InitMetrics
  /\ InitSteps

NextThreads ==
  \/ \E t \in Threads, reason \in Reasons, d \in Durations, user \in Users, g \in BOOLEAN :
       BypassValidation(t, reason, d, user, g)
  \/ \E t \in Threads, raised \in BOOLEAN : ExitGuard(t, raised)
  \/ \E t \in Threads : IsBypassActive(t)
  \/ \E t \in Threads : GetActiveBypass(t)
  \/ \E t \in Threads : GetAllBypasses(t)
  \/ \E t \in Threads : ClearAllBypasses(t)
  \/ Tick

SpecThreads == InitThreads /\ [][NextThreads]_vars

\* the threads of a process that opens bypasses and calls the validators
\* and the metrics functions
InitValidators ==
  /\ policy = [mask |-> <<>>, unmask_roles |-> <<>>, conditions |-> <<>>]
  /\ context = (S_role :> Str(S_y))
  /\ InitEvaluate
  /\ InitBypass
  /\ InitMetrics
  /\ InitSteps

NextValidators ==
  \/ \E t \in Threads, g \in BOOLEAN : BypassValidation(t, S_fix, 3600, <<>>, g)
  \/ \E t \in Threads : ExitGuard(t, FALSE)
  \/ \E t \in Threads, role \in RoleInputs : ValidateRole(t, role)
  \/ \E t \in Threads, score \in ScoreInputs, required \in BOOLEAN :
       ValidateTrustScore(t, score, required)
  \/ \E t \in Threads, ctx \in ContextInputs, source \in Sources :
       ValidateAgentContext(t, ctx, source)
  \/ \E t \in Threads : GetValidationMetrics(t)
  \/ \E t \in Threads : ResetMetrics(t)

SpecValidators == InitValidators /\ [][NextValidators]_vars

\* the threads of a process that opens bypasses and validates strings that
\* match an injection pattern
NextInjection ==
  \/ \E t \in Threads, g \in BOOLEAN : BypassValidation(t, S_fix, 3600, <<>>, g)
  \/ \E t \in Threads : ExitGuard(t, FALSE)
  \/ \E t \in Threads, role \in InjectionRoles : ValidateRole(t, role)
  \/ \E t \in Threads, ctx \in InjectionContexts, source \in Sources :
       ValidateAgentContext(t, ctx, source)
  \/ \E t \in Threads : GetValidationMetrics(t)
  \/ \E t \in Threads : ResetMetrics(t)

SpecInjection == InitValidators /\ [][NextInjection]_vars

\* one call of evaluate_condition(condition, context) on any of the inputs
InitConditions ==
  /\ policy \in [mask : {<<>>}, unmask_roles : {<<>>},
                 conditions : {<<c>> : c \in ConditionInputs}]
  /\ context \in ConditionContexts
  /\ InitEvaluate
  /\ InitBypass
  /\ InitMetrics
  /\ InitSteps

NextConditions == \E t \in Threads : EvaluateCondition(t)

SpecConditions == InitConditions /\ [][NextConditions]_vars

\* threads that call the validators at the same time, record_validation
\* taken one statement at a time; no bypass is opened
InitMetricsCalls ==
  /\ policy = [mask |-> <<>>, unmask_roles |-> <<>>, conditions |-> <<>>]
  /\ context = (S_role :> Str(S_y))
  /\ InitEvaluate
  /\ InitBypass
  /\ InitMetrics
  /\ InitSteps

NextMetrics ==
  \/ \E t \in Threads, role \in RoleInputs :
       CallValidator(t, <<Record("role", RoleResults[role, FALSE])>>)
  \/ \E t \in Threads, score \in ScoreInputs, required \in BOOLEAN :
       CallValidator(t, <<Record("trustScore", ScoreResults[score, required, FALSE])>>)
  \/ \E t \in Threads, ctx \in ContextInputs, source \in Sources :
       CallValidator(t, ContextResults[ctx, source, FALSE].records
                          \o <<Record("context", ContextResults[ctx, source, FALSE].r)>>)
  \/ \E t \in Threads : AcquireMetrics(t)
  \/ \E t \in Threads : AppendTime(t)
  \/ \E t \in Threads : LoadCounter(t)
  \/ \E t \in Threads : StoreCounter(t)
  \/ \E t \in Threads : ReleaseMetrics(t)
  \/ \E t \in Threads : SnapshotMetrics(t)

SpecMetrics == InitMetricsCalls /\ [][NextMetrics]_vars

\* threads that open bypasses, list them and clear them at the same time
InitLocking ==
  /\ policy = [mask |-> <<>>, unmask_roles |-> <<>>, conditions |-> <<>>]
  /\ context = (S_role :> Str(S_y))
  /\ InitEvaluate
  /\ InitBypass
  /\ InitMetrics
  /\ InitSteps

NextLocking ==
  \/ \E t \in Threads, d \in {1, 3600}, g \in BOOLEAN :
       Locked(t) /\ BypassValidation(t, S_fix, d, <<>>, g)
  \/ \E t \in Threads : Locked(t) /\ ExitGuard(t, FALSE)
  \/ \E t \in Threads : Locked(t) /\ IsBypassActive(t)
  \/ \E t \in Threads : GetAllBypassesAcquire(t)
  \/ \E t \in Threads : GetAllBypassesGlobal(t)
  \/ \E t \in Threads : GetAllBypassesNext(t)
  \/ \E t \in Threads : GetAllBypassesDelete(t)
  \/ \E t \in Threads : ClearAllTable(t)
  \/ \E t \in Threads : ClearAllGlobal(t)
  \/ Tick

SpecLocking == InitLocking /\ [][NextLocking]_vars

\* one call of evaluate_condition taken step by step
InitEvaluation ==
  /\ policy \in [mask : {<<>>}, unmask_roles : {<<>>},
                 conditions : {<<c>> : c \in StepConditions}]
  /\ context \in StepContexts
  /\ InitEvaluate
  /\ InitBypass
  /\ InitMetrics
  /\ InitSteps

NextEvaluation ==
  \/ BeginCondition /\ EvaluationUnchanged
  \/ SaveStep /\ EvaluationUnchanged
  \/ SubStep /\ EvaluationUnchanged
  \/ RestoreStep /\ EvaluationUnchanged
  \/ TokenizeStep /\ EvaluationUnchanged
  \/ ExpressionCall /\ EvaluationUnchanged
  \/ ExpressionReturn /\ EvaluationUnchanged
  \/ ExpressionEnd /\ EvaluationUnchanged

SpecEvaluation == InitEvaluation /\ [][NextEvaluation]_vars

\* the thread that runs the call is scheduled again and again
FairEvaluation == SpecEvaluation /\ WF_vars(NextEvaluation)

(***************************************************************************)
(* Properties of evaluate (SpecPolicy)                                     *)
(***************************************************************************)
\* context.role is a member of policy.unmask_roles
RoleListed ==
  /\ S_role \in DOMAIN context
  /\ context[S_role].t = "str"
  /\ \E k \in 1..Len(policy.unmask_roles) : policy.unmask_roles[k] = context[S_role].v

\* what the expression language makes of a condition in the context
Outcome_of(c) == Evaluated[c, context]
EvaluatesTo(c, b) == Outcome_of(c).st = "ok" /\ Outcome_of(c).ret[1] = b

\* the error the evaluator reported, without the "Failed to evaluate" wrapping
InnerMsg(c) ==
  LET o == Outcome_of(c)
  IN  IF o.exc = "ValueError" /\ Len(o.msg) = 4 /\ o.msg[1] = "Failed to evaluate condition '"
      THEN o.msg[4] ELSE o.msg

\* the tokens of the conditions of the model, computed once
Tokenized == [c \in Conditions |-> _tokenize(normalize_condition(c))]

\* the condition does not parse: it is empty or blank, the tokenizer rejects
\* it, or its token sequence is no expression
Unparsable(c) ==
  \/ c = <<>>
  \/ AllSpace(c)
  \/ ~Tokenized[c].ok
  \/ /\ Outcome_of(c).st = "raise"
     /\ InnerMsg(c)[1] \in {"Invalid expression", "Invalid expression structure",
                            "Unmatched parenthesis"}

\* the condition parses and raises at run time: a context key is missing or
\* a field is referenced in a cycle
RuntimeError(c) ==
  /\ Outcome_of(c).st = "raise"
  /\ ~Unparsable(c)
  /\ \/ Outcome_of(c).exc = "CircularReferenceError"
     \/ InnerMsg(c)[1] = "Context key '"

Conds == policy.conditions
Done == pc = "done"

\* C1: when context.role is in policy.unmask_roles, evaluate returns
\* success, no fields, no condition results, unmask_role_override and the
\* reason "Unmasked for role '<role>'", and evaluate_condition is never called.
Thm_C1_RoleOverride ==
  (Done /\ RoleListed) =>
    /\ result.success
    /\ result.fields = <<>>
    /\ result.condition_results = <<>>
    /\ result.unmask_role_override
    /\ result.reason = <<"Unmasked for role '", context[S_role], "'">>
    /\ calls = <<>>

\* C1 witness: the override was taken on a policy that lists a condition that
\* would raise and a condition that would pass
Wit_C1_RoleOverride ==
  /\ Done /\ RoleListed /\ result.unmask_role_override
  /\ \E k \in 1..Len(Conds) : RuntimeError(Conds[k])
  /\ \E k \in 1..Len(Conds) : EvaluatesTo(Conds[k], TRUE)

\* C2: when the role is not listed and at least one condition parses and
\* evaluates to True, evaluate returns success with no fields masked.
Cex_C2_AnyPassUnmasks ==
  (Done /\ ~RoleListed /\ \E k \in 1..Len(Conds) : EvaluatesTo(Conds[k], TRUE)) =>
    (result.success /\ result.fields = <<>>)

\* C3: when the role is not listed, at least one condition parses and every
\* parseable condition evaluates to False, evaluate returns fields =
\* policy.mask with success = false.
Thm_C3_AllFailMasks ==
  (/\ Done /\ ~RoleListed
   /\ \E k \in 1..Len(Conds) : EvaluatesTo(Conds[k], FALSE)
   /\ \A k \in 1..Len(Conds) : EvaluatesTo(Conds[k], FALSE) \/ Unparsable(Conds[k])) =>
    (result.fields = policy.mask /\ ~result.success)

\* C3 witness: a policy with a non-empty mask whose conditions all evaluate
\* to False or do not parse, one of each, has been decided
Wit_C3_AllFailMasks ==
  /\ Done /\ ~RoleListed /\ policy.mask # <<>> /\ result.fields = policy.mask
  /\ \E k \in 1..Len(Conds) : EvaluatesTo(Conds[k], FALSE)
  /\ \E k \in 1..Len(Conds) : Unparsable(Conds[k])
  /\ \A k \in 1..Len(Conds) : EvaluatesTo(Conds[k], FALSE) \/ Unparsable(Conds[k])

\* C4: an unparsable condition does not make evaluate fail: once it has been
\* reached it is listed in skipped_conditions, and the conditions after it
\* are still evaluated.
Cex_C4_UnparsableSkipped ==
  (Done /\ ~RoleListed) =>
    \A k \in 1..Len(calls) :
      Unparsable(calls[k]) =>
        /\ \E j \in 1..Len(result.skipped_conditions) :
             result.skipped_conditions[j][2] = calls[k]
        /\ k < Len(Conds) => Len(calls) > k

\* C5: a policy none of whose conditions is usable (none listed, or every
\* one skipped) is decided as unmask: success, no fields, reason "No
\* conditions to evaluate".
Cex_C5_NoUsableConditions ==
  (Done /\ ~RoleListed /\ Len(result.skipped_conditions) = Len(Conds)) =>
    /\ result.success
    /\ result.fields = <<>>
    /\ result.reason = <<"No conditions to evaluate">>

ActiveOn(t) == is_bypass_active(bypasses, global_bypass, now, t)
ActiveOnNext(t) == is_bypass_active(bypasses', global_bypass', now', t)

\* thread t releases the guard of the only bypass it holds
ReleasesOnlyGuard(t) == Len(guards[t]) = 1 /\ guards'[t] = <<>>

\* the global slot holds an unexpired bypass whose guard thread u still holds
HoldsActiveGlobal(u, slot, held, time) ==
  /\ slot # NoBypass /\ is_active(slot, time)
  /\ \E k \in 1..Len(held[u]) : held[u][k].global_bypass /\ held[u][k].bypass = slot

\* trust scores handed to validate_trust_score
Scores ==
  {None, Bool(TRUE), Num(50 * Scale), Num(150 * Scale),
   Str(<<"8","5">>), Str(<<"a","b","c">>), Str(S_inf)}

\* validate_trust_score called on thread t in the next state raises, for
\* every input it rejects without a bypass, the error it raises without one
RejectsAgain(t) ==
  \A score \in Scores, required \in BOOLEAN :
    validate_trust_score(score, required, FALSE).st = "raise" =>
      validate_trust_score(score, required, ActiveOnNext(t))
        = validate_trust_score(score, required, FALSE)

\* C7 as stated: after a thread released the guard of the only bypass it
\* held, is_bypass_active() is false on that thread and validate_trust_score
\* rejects again what it rejects without a bypass.
Cex_C7_ReleaseRestores ==
  [][\A t \in Threads :
       ReleasesOnlyGuard(t) => (~ActiveOnNext(t) /\ RejectsAgain(t))]_vars

\* C7 amended: after a thread released the guard of the only bypass it held,
\* whether the block ended normally or raised, is_bypass_active() is false on
\* that thread and validate_trust_score rejects again what it rejects without
\* a bypass, unless a global bypass held by another thread is active.
Thm_C7_ReleaseRestores ==
  [][\A t \in Threads :
       ReleasesOnlyGuard(t) =>
         \/ ~ActiveOnNext(t) /\ RejectsAgain(t)
         \/ \E u \in Threads \ {t} :
              HoldsActiveGlobal(u, global_bypass', guards', now')]_vars

\* C7 witness: a block that raised has just released the only guard of its
\* thread, the bypass it opened was recorded, and no bypass is active there
Wit_C7_ReleaseRestores ==
  /\ last.op = "exit" /\ last.res = TRUE
  /\ guards[last.thread] = <<>>
  /\ bypass_uses # <<>>
  /\ ~ActiveOn(last.thread)
  /\ validate_trust_score(Num(150 * Scale), TRUE, ActiveOn(last.thread)).st = "raise"

\* C8: as long as a thread holds the guard of a thread-scoped bypass whose
\* duration has not elapsed, no call of the bypass API other than
\* clear_all_bypasses makes is_bypass_active() false on that thread.
Cex_C8_ActiveWhileHeld ==
  [][\A t \in Threads :
       (/\ guards[t] # <<>> /\ guards'[t] # <<>>
        /\ guards'[t][1] = guards[t][1]
        /\ ~guards[t][1].global_bypass
        /\ is_active(guards[t][1].bypass, now')
        /\ last'.op # "clear_all_bypasses"
        /\ ActiveOn(t)) => ActiveOnNext(t)]_vars

\* C9: a thread-scoped bypass requested on a thread that has an active bypass
\* leaves get_active_bypass() on that thread reporting the same bypass_id.
Cex_C9_NestedReuses ==
  [][\A t \in Threads :
       (/\ Len(guards'[t]) = Len(guards[t]) + 1
        /\ ~guards'[t][Len(guards'[t])].global_bypass
        /\ get_active_bypass(bypasses, global_bypass, now, t) # NoBypass) =>
         get_active_bypass(bypasses', global_bypass', now', t).bypass_id
           = get_active_bypass(bypasses, global_bypass, now, t).bypass_id]_vars

\* thread t holds the guard of the thread-scoped bypass b
HoldsThreadScoped(t, b) ==
  \E k \in 1..Len(guards[t]) : ~guards[t][k].global_bypass /\ guards[t][k].bypass = b

\* C10: whatever is_bypass_active() or get_active_bypass() reports as active
\* on a thread is a global bypass some thread holds or a thread-scoped bypass
\* that thread itself created and holds, never the thread-scoped bypass of
\* another thread.
Thm_C10_ThreadIsolation ==
  \A b \in Threads :
    LET reported == get_active_bypass(bypasses, global_bypass, now, b)
    IN  (ActiveOn(b) \/ reported # NoBypass) =>
          \/ /\ \E u \in Threads : HoldsActiveGlobal(u, global_bypass, guards, now)
             /\ reported = global_bypass
          \/ /\ HoldsThreadScoped(b, reported)
             /\ reported.bypass_id[3] = b

\* C10 witness: is_bypass_active() has just returned false on a thread while
\* another thread holds an active thread-scoped bypass
Wit_C10_ThreadIsolation ==
  /\ last.op = "is_bypass_active" /\ last.res = FALSE
  /\ \E a \in Threads \ {last.thread} :
       /\ bypasses[a] # NoBypass /\ is_active(bypasses[a], now)
       /\ HoldsThreadScoped(a, bypasses[a])

\* thread u holds, before and after the step, the guard of a global bypass
\* whose duration has not elapsed
KeepsGlobalGuard(u) ==
  \E k \in 1..Len(guards[u]) :
    /\ guards[u][k].global_bypass
    /\ k <= Len(guards'[u]) /\ guards'[u][k] = guards[u][k]
    /\ is_active(guards[u][k].bypass, now')

\* C11: while a thread holds the guard of a global bypass whose duration has
\* not elapsed, is_bypass_active() stays true on every thread across every
\* step other than clear_all_bypasses, the opening and the release of
\* another global bypass included.
Cex_C11_GlobalWhileHeld ==
  [][(/\ \E u \in Threads : KeepsGlobalGuard(u)
      /\ last'.op # "clear_all_bypasses"
      /\ \A t \in Threads : ActiveOn(t)) =>
       \A t \in Threads : ActiveOnNext(t)]_vars

\* the step is a call of the module-level function op (the clock stands
\* still during a call)
Calls(op) == last'.op = op /\ now' = now

\* the expiry time of the context b has not been reached
Unexpired(b, time) == b # NoBypass /\ time < b.end_time

\* an expired context is left in the place the call of thread t looked at:
\* the global slot, or the entry of t when no global bypass answered first
LeavesExpired(t) ==
  \/ global_bypass' # NoBypass /\ ~Unexpired(global_bypass', now')
  \/ /\ ~Unexpired(global_bypass, now)
     /\ bypasses'[t] # NoBypass /\ ~Unexpired(bypasses'[t], now')

\* what is_bypass_active() and get_active_bypass() answer on expiry: true,
\* or a context, exactly when the global slot or the entry of the calling
\* thread holds a context whose expiry time has not been reached
AnswersByExpiry ==
  /\ Calls("is_bypass_active") =>
       last'.res = (\/ Unexpired(global_bypass, now)
                    \/ Unexpired(bypasses[last'.thread], now))
  /\ Calls("get_active_bypass") =>
       /\ last'.res # to_dict(NoBypass, 0) <=>
            (\/ Unexpired(global_bypass, now)
             \/ Unexpired(bypasses[last'.thread], now))
       /\ last'.res # to_dict(NoBypass, 0) =>
            now < last'.res.end_time /\ last'.res.is_active

\* C12 as stated: a context whose expiry time has been reached is treated
\* as inactive by is_bypass_active() and get_active_bypass(), and the call
\* that finds a context expired removes it.
Cex_C12_ExpiryEvicts ==
  [][/\ AnswersByExpiry
     /\ \A op \in {"is_bypass_active", "get_active_bypass"} :
          Calls(op) => ~LeavesExpired(last'.thread)]_vars

\* C12 amended: a context whose expiry time has been reached is treated as
\* inactive by is_bypass_active() and get_active_bypass(); is_bypass_active()
\* removes the expired entry of the calling thread when no global bypass is
\* active, get_all_bypasses() removes the expired entries of all threads,
\* get_active_bypass() removes nothing, and none of them empties the global
\* slot.
Thm_C12_ExpiryEvicts ==
  [][/\ AnswersByExpiry
     /\ Calls("is_bypass_active") =>
          /\ global_bypass' = global_bypass
          /\ \A t \in Threads :
               bypasses'[t] =
                 IF /\ t = last'.thread
                    /\ ~Unexpired(global_bypass, now)
                    /\ ~Unexpired(bypasses[t], now)
                   THEN NoBypass ELSE bypasses[t]
     /\ Calls("get_active_bypass") =>
          bypasses' = bypasses /\ global_bypass' = global_bypass
     /\ Calls("get_all_bypasses") =>
          /\ global_bypass' = global_bypass
          /\ \A t \in Threads :
               bypasses'[t] =
                 IF Unexpired(bypasses[t], now) THEN bypasses[t] ELSE NoBypass]_vars

\* C12 witness: is_bypass_active() has just returned false on a thread that
\* still holds the guard of its only bypass, a thread-scoped one whose expiry
\* time has been reached, and the entry of the thread is gone from the table
Wit_C12_ExpiryEvicts ==
  /\ last.op = "is_bypass_active" /\ last.res = FALSE
  /\ Len(guards[last.thread]) = 1
  /\ ~guards[last.thread][1].global_bypass
  /\ now >= guards[last.thread][1].bypass.end_time
  /\ bypasses[last.thread] = NoBypass

\* the contexts in the table, in the global slot and behind the open guards
LiveContexts ==
  {bypasses[t] : t \in Threads} \cup {global_bypass}
    \cup UNION {{guards[t][k].bypass : k \in 1..Len(guards[t])} : t \in Threads}

\* a context that bypass_validation may create: the reason is not blank and
\* the expiry time is at most one hour after the creation time
Admissible(b) ==
  /\ b.reason # <<>> /\ Strip(b.reason) # <<>>
  /\ b.duration_seconds <= 3600
  /\ b.end_time - b.start_time <= 3600 * TicksPerSecond

\* C13: a bypass_validation request that is refused raises and leaves the
\* table, the global slot, the open guards and the bypass history of the
\* metrics unchanged; a request that is not refused has a reason that is not
\* blank and a duration of at most 3600 seconds; hence every context that
\* exists has a reason that is not blank and expires at most one hour after
\* its creation.
Thm_C13_RefusedBypass ==
  /\ [](\A b \in LiveContexts \ {NoBypass} : Admissible(b))
  /\ [](\A k \in 1..Len(bypass_uses) :
          bypass_uses[k].info.reason # <<>>
            /\ bypass_uses[k].info.duration_seconds <= 3600)
  /\ [][Calls("bypass_validation") =>
          IF last'.res # ""
            THEN UNCHANGED <<bypasses, global_bypass, guards, bypass_uses>>
            ELSE /\ Len(bypass_uses') = Len(bypass_uses) + 1
                 /\ \E t \in Threads :
                      /\ Len(guards'[t]) = Len(guards[t]) + 1
                      /\ Admissible(guards'[t][Len(guards'[t])].bypass)]_vars

\* C13 witness: a request has just been refused for its duration while a
\* bypass created earlier is active and recorded
Wit_C13_RefusedBypass ==
  /\ last.op = "bypass_validation"
  /\ last.res = "Bypass duration cannot exceed 1 hour"
  /\ Len(bypass_uses) = 1
  /\ ActiveOn(last.thread)

\* C14: every creation of a bypass is visible in the metrics: a call of
\* get_validation_metrics() made after a bypass was created since the last
\* reset reports bypass_count = the number of bypasses created since that
\* reset and has the latest creation as the last of recent_bypasses, whether
\* or not a validator has been called.
Cex_C14_BypassVisible ==
  [][(Calls("get_validation_metrics") /\ bypass_uses # <<>>)
       => /\ "bypass_count" \in DOMAIN last'.res
          /\ last'.res.bypass_count = Len(bypass_uses)
          /\ last'.res.recent_bypasses # <<>>
          /\ last'.res.recent_bypasses[Len(last'.res.recent_bypasses)]
               = bypass_uses[Len(bypass_uses)]]_vars

\* the last step was a call of the validator op that read is_bypass_active()
\* as active
Validated(op, active) ==
  /\ last.op = op
  /\ last.res.active = active

\* C15: while a bypass is active the validators return safe defaults and
\* do not raise: validate_role returns "anonymous" for a missing role, and
\* validate_trust_score returns 0.0 for every score that is missing when
\* required or that the validation without a bypass rejects.
Cex_C15_SafeDefaults ==
  /\ Validated("validate_role", TRUE)
       => /\ last.res.r.st = "ok"
          /\ last.res.args[1] = None
               => last.res.r = Return(<<Str(S_anonymous)>>)
  /\ Validated("validate_trust_score", TRUE)
       => /\ last.res.r.st = "ok"
          /\ ScoreResults[last.res.args[1], last.res.args[2], FALSE].st = "raise"
               => last.res.r = Return(<<Num(0)>>)

\* numeric strings with the number each denotes
NumericStrings ==
  {<<Str(<<"8","5">>), PyInt(85)>>,
   <<Str(<<" ","8","5",".","5"," ">>), Num(8550)>>,
   <<Str(<<"0">>), PyInt(0)>>,
   <<Str(<<"1","0","0",".","0">>), Num(10000)>>}

Listed(score) ==
  \/ score.t \in {"bool", "inf", "nan"}
  \/ score.t = "str" /\ StrLower(Strip(score.v)) \in {S_infinity, S_inf, S_nan}
  \/ score.t = "int" /\ (score.v < 0 \/ score.v > 100)
  \/ score.t = "num" /\ (score.v < 0 \/ score.v > 100 * Scale)
  \/ score.t = "int10" /\ (score.v > 2 \/ score.v < 0)

\* C17: with no bypass active validate_trust_score raises a ValidationError
\* for each listed score, raises for None when required and returns None
\* when optional, and every other value it returns is a float in [0,100].
Cex_C17_ScoreRejected ==
  Validated("validate_trust_score", FALSE)
    => /\ Listed(last.res.args[1])
            => last.res.r.st = "raise" /\ last.res.r.exc = "ValidationError"
       /\ last.res.args[1] = None
            => IF last.res.args[2]
                 THEN last.res.r.st = "raise" /\ last.res.r.exc = "ValidationError"
               ELSE last.res.r = Return(<<None>>)
       /\ (last.res.r.st = "ok" /\ last.res.r.ret[1] # None)
            => /\ last.res.r.ret[1].t = "num"
               /\ last.res.r.ret[1].v >= 0
               /\ last.res.r.ret[1].v <= 100 * Scale

Cex_C19_Idempotent ==
  (Validated("validate_agent_context", FALSE) /\ last.res.r.st = "ok")
    => /\ validate_agent_context(last.res.r.ret[1], last.res.args[2], FALSE).st = "ok"
       /\ Equal(validate_agent_context(last.res.r.ret[1], last.res.args[2], FALSE).ret[1],
                last.res.r.ret[1])

\* the greatest of a set of naturals, 0 for the empty set
Greatest(S) == IF S = {} THEN 0 ELSE CHOOSE n \in S : \A k \in S : k <= n

\* the levels of dicts and lists nested in x, x counted when it is one
RECURSIVE Levels(_)
Levels(x) ==
  CASE x.t = "tower" -> x.v[2] + Levels(x.v[3])
    [] x.t = "dict" -> 1 + Greatest({Levels(x.v[i][2]) : i \in 1..Len(x.v)})
    [] x.t = "list" -> 1 + Greatest({Levels(x.v[i]) : i \in 1..Len(x.v)})
    [] OTHER -> 0

\* the category of the ValidationError r
Category(r) == r.msg[2]

\* C20: with no bypass active, a context whose serialized size is above
\* 1 MiB is rejected with a ValidationError of category SIZE_LIMIT, and a
\* context of benign fields nested beyond 100 levels with one of category
\* DEPTH_LIMIT.
Cex_C20_GuardCategories ==
  (Validated("validate_agent_context", FALSE) /\ last.res.args[1].t = "dict")
    => /\ ReprLen(last.res.args[1]) > MAX_CONTENT_SIZE
            => /\ last.res.r.st = "raise"
               /\ last.res.r.exc = "ValidationError"
               /\ Category(last.res.r) = "SIZE_LIMIT"
       /\ (/\ ReprLen(last.res.args[1]) <= MAX_CONTENT_SIZE
           /\ Levels(last.res.args[1]) > MAX_JSON_DEPTH)
            => /\ last.res.r.st = "raise"
               /\ last.res.r.exc = "ValidationError"
               /\ Category(last.res.r) = "DEPTH_LIMIT"

\* the context has a str under the key note, or under note in its dict d
HasField(ctx) ==
  /\ ctx.t = "dict"
  /\ \/ HasKey(ctx, S_note) /\ Get(ctx, S_note).t = "str"
     \/ /\ HasKey(ctx, <<"d">>)
        /\ Get(ctx, <<"d">>).t = "dict"
        /\ HasKey(Get(ctx, <<"d">>), S_note)
        /\ Get(Get(ctx, <<"d">>), S_note).t = "str"

\* that str
Field(ctx) ==
  IF HasKey(ctx, S_note) THEN Get(ctx, S_note) ELSE Get(Get(ctx, <<"d">>), S_note)

\* the first pattern found in the string x is one of the JavaScript and XSS
\* patterns
MatchesXSS(x) ==
  /\ x.t = "str"
  /\ FirstPattern(Lowered(NFKC(x))) # 0
  /\ INJECTION_PATTERNS[FirstPattern(Lowered(NFKC(x)))].attack_type
       \in {<<"J","a","v","a","S","c","r","i","p","t"," ","p","r","o","t","o","c","o","l">>, <<"X","S","S"," ","t","a","g"," ","i","n","j","e","c","t","i","o","n">>, <<"E","v","e","n","t"," ","h","a","n","d","l","e","r"," ","i","n","j","e","c","t","i","o","n">>}

\* C21: with no bypass active a string whose first matching pattern is a
\* JavaScript or XSS pattern is rejected with the code INJECTION_XSS, and a
\* string rejected for an injection as the role is rejected with the same
\* code and the category INJECTION_ATTACK as a field of the context, at the
\* top level or nested.
Cex_C21_SameCode ==
  /\ (Validated("validate_role", FALSE) /\ MatchesXSS(last.res.args[1]))
       => last.res.r = Raise("ValidationError", <<"INJECTION_XSS", "INJECTION_ATTACK">>)
  /\ (/\ Validated("validate_agent_context", FALSE)
      /\ HasField(last.res.args[1])
      /\ validate_role(Field(last.res.args[1]), FALSE).st = "raise"
      /\ Category(validate_role(Field(last.res.args[1]), FALSE)) = "INJECTION_ATTACK")
       => /\ last.res.r = validate_role(Field(last.res.args[1]), FALSE)
          /\ MatchesXSS(Field(last.res.args[1]))
               => last.res.r.msg[1] = "INJECTION_XSS"

\* the last step was a call of evaluate_condition
Evaluates == last.op = "evaluate_condition"

\* the names the resolution of name goes through in the context ctx, in
\* order: a value that is the name of a field is an alias of that field; the
\* chain ends at a name seen before or at a name whose value is no alias
RECURSIVE Chain(_, _, _)
Chain(ctx, name, seen) ==
  IF \E k \in 1..Len(seen) : seen[k] = name THEN Append(seen, name)
  ELSE IF name \in DOMAIN ctx /\ ctx[name].t = "str" /\ ctx[name].v \in DOMAIN ctx
    THEN Chain(ctx, ctx[name].v, Append(seen, name))
  ELSE Append(seen, name)

\* the chain returns to a name already visited
Cyclic(chain) == \E k \in 1..(Len(chain) - 1) : chain[k] = chain[Len(chain)]

\* C22: evaluate_condition on a condition about the identifier a raises
\* CircularReferenceError with the chain in its message when the alias chain
\* of a in the context returns to a visited name, and otherwise compares the
\* value at the end of the chain.
Cex_C22_AliasChain ==
  (/\ Evaluates
   /\ last.res.args[1] \in {<<"a"," ",">"," ","0">>, <<"a"," ","=","="," ","5">>}
   /\ S_a \in DOMAIN last.res.args[2])
    => LET ctx == last.res.args[2]
           chain == Chain(ctx, S_a, <<>>)
       IN  IF Cyclic(chain)
             THEN last.res.r = Raise("CircularReferenceError",
                                     <<"Circular reference detected: ", chain>>)
           ELSE last.res.r.st = evaluate_condition(last.res.args[1],
                                  [ctx EXCEPT ![S_a] = ctx[chain[Len(chain)]]], {}).st
                /\ last.res.r.st = "ok"
                     => last.res.r.ret[1]
                          = evaluate_condition(last.res.args[1],
                              [ctx EXCEPT ![S_a] = ctx[chain[Len(chain)]]], {}).ret[1]

\* conditions joined by a combinator: the condition, its two sides and
\* whether the combinator is the conjunction
Joined ==
  {<<<<"x"," ",">"," ","1"," ","&","&"," ","y"," ",">"," ","1">>, <<"x"," ",">"," ","1">>, <<"y"," ",">"," ","1">>, TRUE>>,
   <<<<"x"," ",">"," ","1"," ","a","n","d"," ","y"," ",">"," ","1">>, <<"x"," ",">"," ","1">>, <<"y"," ",">"," ","1">>, TRUE>>,
   <<<<"x"," ",">"," ","1"," ","|","|"," ","y"," ",">"," ","1">>, <<"x"," ",">"," ","1">>, <<"y"," ",">"," ","1">>, FALSE>>,
   <<<<"x"," ",">"," ","1"," ","o","r"," ","y"," ",">"," ","1">>, <<"x"," ",">"," ","1">>, <<"y"," ",">"," ","1">>, FALSE>>}

\* the condition c evaluates in the context ctx, and to what
Evaluable(c, ctx) == evaluate_condition(c, ctx, {}).st = "ok"
Holds(c, ctx) == evaluate_condition(c, ctx, {}).ret[1]

\* C26: a condition joined by && or and evaluates to the conjunction, and by
\* || or or to the disjunction, of its two sides when both evaluate, and its
\* explanation contains the explanations of the sides; "(A || B) && C"
\* evaluates to (A or B) and C.
Cex_C26_Combinators ==
  Evaluates
    => LET ctx == last.res.args[2]
       IN  /\ \A j \in Joined :
                (/\ last.res.args[1] = j[1]
                 /\ Evaluable(j[2], ctx)
                 /\ Evaluable(j[3], ctx))
                  => /\ last.res.r.st = "ok"
                     /\ last.res.r.ret[1]
                          = (IF j[4] THEN Holds(j[2], ctx) /\ Holds(j[3], ctx)
                             ELSE Holds(j[2], ctx) \/ Holds(j[3], ctx))
                     /\ \E p, q \in 1..Len(last.res.r.ret[2]) :
                          /\ last.res.r.ret[2][p] = evaluate_condition(j[2], ctx, {}).ret[2]
                          /\ last.res.r.ret[2][q] = evaluate_condition(j[3], ctx, {}).ret[2]
           /\ (/\ last.res.args[1] = <<"(","x"," ",">"," ","1"," ","|","|"," ","y"," ",">"," ","1",")"," ","&","&"," ","z"," ",">"," ","1">>
               /\ Evaluable(<<"x"," ",">"," ","1">>, ctx)
               /\ Evaluable(<<"y"," ",">"," ","1">>, ctx)
               /\ Evaluable(<<"z"," ",">"," ","1">>, ctx))
                => /\ last.res.r.st = "ok"
                   /\ last.res.r.ret[1]
                        = ((Holds(<<"x"," ",">"," ","1">>, ctx) \/ Holds(<<"y"," ",">"," ","1">>, ctx)) /\ Holds(<<"z"," ",">"," ","1">>, ctx))

\* comparisons by > and <, with the identifier that is an operand
NumericConditions ==
  {<<<<"t","r","u","s","t","S","c","o","r","e"," ",">"," ","8","0">>, S_trustScore>>, <<<<"8","0"," ","<"," ","t","r","u","s","t","S","c","o","r","e">>, S_trustScore>>,
   <<<<"x"," ",">"," ","8","0">>, S_x>>, <<<<"8","0"," ","<"," ","x">>, S_x>>}

\* C27: a comparison by > or < evaluates only when the value of its
\* identifier operand is a true number (no string, no boolean), and when the
\* identifier is trustScore only when the value is in [0,100].
Cex_C27_TypeStrict ==
  Evaluates
    => \A n \in NumericConditions :
         (/\ last.res.args[1] = n[1]
          /\ n[2] \in DOMAIN last.res.args[2]
          /\ last.res.r.st = "ok")
           => /\ last.res.args[2][n[2]].t = "num"
              /\ n[2] = S_trustScore
                   => /\ last.res.args[2][n[2]].v >= 0
                      /\ last.res.args[2][n[2]].v <= 100 * Scale

\* conditions with the identifier dept as an operand, and the other
\* identifier they use (<<>> for none)
DeptConditions ==
  {<<<<"d","e","p","t">>, <<>>>>, <<<<"d","e","p","t"," ","=","="," ","'","x","'">>, <<>>>>, <<<<"d","e","p","t"," ",">"," ","1">>, <<>>>>, <<<<"1"," ","<"," ","d","e","p","t">>, <<>>>>,
   <<<<"r","o","l","e"," ","=","="," ","d","e","p","t">>, S_role>>, <<<<"r","o","l","e"," ","!","="," ","d","e","p","t">>, S_role>>}

\* C28: an identifier operand that is absent from the context makes the
\* evaluation fail with "Context key '<name>' not found", alone, on the left
\* or on the right of a comparison.
Cex_C28_MissingField ==
  Evaluates
    => \A d \in DeptConditions :
         (/\ last.res.args[1] = d[1]
          /\ S_dept \notin DOMAIN last.res.args[2]
          /\ d[2] = <<>> \/ d[2] \in DOMAIN last.res.args[2])
           => last.res.r
                = Wrapped(d[1], <<"Context key '", S_dept, "' not found">>)

\* C29: a context that validate_agent_context accepts with no bypass active
\* is returned, while a bypass is active, as a value equal to the one
\* returned with no bypass active.
Cex_C29_BypassSameValue ==
  (/\ Validated("validate_agent_context", TRUE)
   /\ ContextResults[last.res.args[1], last.res.args[2], FALSE].r.st = "ok")
    => /\ last.res.r.st = "ok"
       /\ Equal(last.res.r.ret[1],
                ContextResults[last.res.args[1], last.res.args[2], FALSE].r.ret[1])

\* C25: any two bypass contexts created in a run, each recorded in
\* bypass_uses at its creation, have different bypass_id values.
Cex_C25_UniqueId ==
  \A i, j \in 1..Len(bypass_uses) :
    i # j => bypass_uses[i].info.bypass_id # bypass_uses[j].info.bypass_id

\* C24: under concurrent validator calls no update of the metrics is lost:
\* whenever the lock of the metrics is free (where a snapshot can be
\* taken, and after all the calls), validation_counts[type] is the number
\* of calls of record_validation of that type that ended and
\* rejection_counts[type] the number of those that recorded a failure, so
\* rejection_counts[type] <= validation_counts[type]; and every summary
\* returned has total_rejections <= total_validations.
Thm_C24_NoLostUpdates ==
  /\ metrics_lock = 0 =>
       \A type \in ValidationTypes :
         /\ validation_counts[type] = completed.calls[type]
         /\ rejection_counts[type] = completed.raised[type]
         /\ rejection_counts[type] <= validation_counts[type]
  /\ (last.op = "get_validation_metrics" /\ "total_validations" \in DOMAIN last.res) =>
       last.res.total_rejections <= last.res.total_validations

\* one thread is inside record_validation, the other one waits for the
\* lock, and a rejected call has been counted before
Wit_C24_NoLostUpdates ==
  /\ \E t, u \in Threads : metrics_lock = t /\ tpc[u] = "finally" /\ u # t
  /\ Total(completed.raised) > 0
  /\ Total(validation_counts) > Total(completed.calls)

\* C30: while a thread holds the lock of the bypass manager, no step of
\* another thread changes the table of thread bypasses or the global slot.
Cex_C30_LockDiscipline ==
  [][\A t \in Threads :
       (manager_lock = t /\ tpc'[t] = tpc[t] /\ local'[t] = local[t])
         => UNCHANGED <<bypasses, global_bypass>>]_vars

\* the maximum recursion depth error of _evaluate_expression
TooDeepError ==
  Raise("ValueError", <<"Maximum recursion depth of ", MAX_RECURSION_DEPTH, " exceeded">>)

\* C23: every call of evaluate_condition ends, by a result or by an
\* exception; the tokenizer never holds more than MAX_TOKENS tokens; the
\* calls of _evaluate_expression never nest beyond depth
\* MAX_RECURSION_DEPTH + 1, and a call at a depth greater than
\* MAX_RECURSION_DEPTH makes no call and ends with the maximum recursion
\* depth error.
Thm_C23_Terminates ==
  /\ <>(pc = "done")
  /\ [](pc = "done" => last.res.r.st \in {"ok", "raise"})
  /\ [](Len(frame.tokens) <= MAX_TOKENS)
  /\ [](\A k \in 1..Len(frame.stack) :
          /\ frame.stack[k].depth = k - 1
          /\ frame.stack[k].depth <= MAX_RECURSION_DEPTH + 1)
  /\ [][(/\ frame.stack # <<>>
          /\ frame.stack[Len(frame.stack)].depth > MAX_RECURSION_DEPTH
          /\ frame' # frame)
           => /\ frame'.stack = Pop(frame.stack)
              /\ frame'.ret = TooDeepError]_vars

\* a condition of MAX_RECURSION_DEPTH + 1 nested parentheses has ended with
\* the maximum recursion depth error
Wit_C23_Terminates ==
  /\ pc = "done"
  /\ policy.conditions[1] = Parens(MAX_RECURSION_DEPTH + 1)
  /\ last.res.r = Wrapped(policy.conditions[1], TooDeepError.msg)

=============================================================================
